---- MODULE Spec2Model ----
(***************************************************************************)
(* The gif wall's friend-request state machine and login identity          *)
(* resolution (giphy_db.py, giphywall.py) as a state machine.              *)
(*                                                                         *)
(* Text is a sequence of one-character strings, so that strip(), the       *)
(* "local:" prefix and SQL's ORDER BY on text are computed, not assumed.   *)
(* Python's None is NoId for an id or timestamp and NoneStr for text.      *)
(* _now_iso() is a logical clock: every stamp stored is later than the     *)
(* stamps stored before it.                                                *)
(***************************************************************************)
EXTENDS Integers, Sequences, FiniteSets, TLC

VARIABLES
    users,      \* table users, in id order
    requests,   \* table friend_requests, in id order
    giphies,    \* table giphies, in id order
    now,        \* the next reading of _now_iso()
    uuids,      \* how many uuid4() values have been drawn
    sessions,   \* st.session_state of every browser session
    last,       \* the most recent operation and what it returned
    before      \* the stored tables and session states when that call began

vars == <<users, requests, giphies, now, uuids, sessions, last, before>>

----------------------------------------------------------------------------
(* Bounds *)

\* users rows the login specification may create
MaxUsers == 3
\* friend_requests rows that may be inserted
MaxRequests == 2
\* browser sessions
NumSessions == 1
\* gifs that may be posted
MaxGifs == 2
\* reactions the sessions of a process may record
MaxReactions == 2

----------------------------------------------------------------------------
(* Values *)

NoId == -1
NoneStr == <<"<None>">>

Sessions == 1..NumSessions

\* byte order of the characters used, for SQLite's BINARY collation
CharCode ==
    (" " :> 32) @@ (":" :> 58) @@ ("A" :> 65) @@ ("a" :> 97) @@ ("b" :> 98)
    @@ ("c" :> 99) @@ ("d" :> 100) @@ ("e" :> 101) @@ ("f" :> 102)
    @@ ("l" :> 108) @@ ("o" :> 111)

\* Python truthiness of an optional text: None and "" are falsy
Truthy(s) == s # NoneStr /\ s # <<>>

\* Python truthiness of an optional integer: None and 0 are falsy
IsFalsy(x) == x = NoId \/ x = 0

\* a or b, for optional texts
OrElse(a, b) == IF Truthy(a) THEN a ELSE b

\* str.strip(): leading and trailing whitespace removed
RECURSIVE LStrip(_)
LStrip(s) == IF s # <<>> /\ Head(s) = " " THEN LStrip(Tail(s)) ELSE s

RECURSIVE RStrip(_)
RStrip(s) ==
    IF s # <<>> /\ s[Len(s)] = " " THEN RStrip(SubSeq(s, 1, Len(s) - 1)) ELSE s

Strip(s) == RStrip(LStrip(s))

\* (text or "").strip() or None
StripOrNone(s) == IF Truthy(Strip(OrElse(s, <<>>))) THEN Strip(OrElse(s, <<>>)) ELSE NoneStr

\* uuid4().hex: the n-th value drawn, different from every other draw
Uuid4Hex(n) == [i \in 1..n |-> "f"]

LocalPrefix == <<"l", "o", "c", "a", "l", ":">>

----------------------------------------------------------------------------
(* Table users *)

NoUserRow ==
    [id |-> NoId, login_identifier |-> NoneStr, username |-> NoneStr,
     display_name |-> NoneStr, profile_url |-> NoneStr, email |-> NoneStr,
     created_at |-> NoId, last_login |-> NoId]

\* fetchone() of a SELECT on users: the row of least id among those at
\* positions hits, or NoUserRow
FirstUser(usrs, hits) ==
    IF hits = {} THEN NoUserRow
    ELSE usrs[CHOOSE i \in hits : \A j \in hits : i <= j]

get_user_by_username(usrs, username) ==
    IF ~Truthy(username) THEN NoUserRow
    ELSE FirstUser(usrs, {i \in 1..Len(usrs) : usrs[i].username = username})

get_user_by_email(usrs, email) ==
    IF ~Truthy(email) THEN NoUserRow
    ELSE FirstUser(usrs, {i \in 1..Len(usrs) : usrs[i].email = email})

get_user_by_id(usrs, user_id) ==
    FirstUser(usrs, {i \in 1..Len(usrs) : usrs[i].id = user_id})

\* mutant: lower() leaves every character as it is
lower_char_identity(c) == c

\* SQLite's lower() of one character: only ASCII letters are folded
lower_char(c) == IF c = "A" THEN "a" ELSE IF c = "B" THEN "b" ELSE c

\* lower(text)
lower(s) == [i \in 1..Len(s) |-> lower_char(s[i])]

\* coalesce(column, '')
coalesce_empty(s) == IF s = NoneStr THEN <<>> ELSE s

\* find_user_by_identifier: the row of least id whose username, email or
\* display name is the trimmed text, letter case aside; no query for a blank text
find_user_by_identifier(usrs, identifier) ==
    LET query == Strip(OrElse(identifier, <<>>))
    IN  IF ~Truthy(query) THEN NoUserRow
        ELSE FirstUser(usrs, {i \in 1..Len(usrs) :
                \/ lower(coalesce_empty(usrs[i].username)) = lower(query)
                \/ lower(coalesce_empty(usrs[i].email)) = lower(query)
                \/ lower(coalesce_empty(usrs[i].display_name)) = lower(query)})

\* mutant: the users table takes a login identifier it already holds
create_user_unconstrained(usrs, login_identifier, username, display_name, profile_url, email, t, n) ==
    LET drawn      == ~Truthy(login_identifier) /\ ~Truthy(username) /\ ~Truthy(email)
        identifier == OrElse(login_identifier,
                         OrElse(username, OrElse(email, LocalPrefix \o Uuid4Hex(n + 1))))
    IN  [users |-> Append(usrs,
                      [id |-> Len(usrs) + 1, login_identifier |-> identifier,
                       username |-> username, display_name |-> display_name,
                       profile_url |-> profile_url, email |-> email,
                       created_at |-> t, last_login |-> t]),
         user_id |-> Len(usrs) + 1,
         uuids |-> IF drawn THEN n + 1 ELSE n]

\* create_user: the table after the call, the id returned and the draws used.
\* INSERT fails on a login identifier already stored (UNIQUE), and then the
\* id of the row holding it is returned.
create_user(usrs, login_identifier, username, display_name, profile_url, email, t, n) ==
    LET drawn      == ~Truthy(login_identifier) /\ ~Truthy(username) /\ ~Truthy(email)
        identifier == OrElse(login_identifier,
                         OrElse(username, OrElse(email, LocalPrefix \o Uuid4Hex(n + 1))))
        held       == FirstUser(usrs,
                         {i \in 1..Len(usrs) : usrs[i].login_identifier = identifier})
        row        == [id |-> Len(usrs) + 1, login_identifier |-> identifier,
                       username |-> username, display_name |-> display_name,
                       profile_url |-> profile_url, email |-> email,
                       created_at |-> t, last_login |-> t]
    IN  IF held # NoUserRow
        THEN [users |-> usrs, user_id |-> held.id, uuids |-> IF drawn THEN n + 1 ELSE n]
        ELSE [users |-> Append(usrs, row), user_id |-> row.id,
              uuids |-> IF drawn THEN n + 1 ELSE n]

\* create_user when its INSERT raises something other than IntegrityError
\* (the file is locked or read-only, the table is missing): the handler logs
\* it, nothing is stored and 0 is returned
create_user_failed(usrs, login_identifier, username, display_name, profile_url, email, t, n) ==
    [users |-> usrs, user_id |-> 0,
     uuids |-> IF ~Truthy(login_identifier) /\ ~Truthy(username) /\ ~Truthy(email)
               THEN n + 1 ELSE n]

----------------------------------------------------------------------------
(* Table friend_requests *)

NoRequest ==
    [id |-> NoId, requester_id |-> NoId, receiver_id |-> NoId, status |-> "none",
     created_at |-> NoId, responded_at |-> NoId]

\* the rows between the unordered pair, as positions in the table
Between(reqs, a, b) ==
    {i \in 1..Len(reqs) :
        \/ reqs[i].requester_id = a /\ reqs[i].receiver_id = b
        \/ reqs[i].requester_id = b /\ reqs[i].receiver_id = a}

\* mutant: the lookup sees only the rows of the caller's own direction
existing_own_direction(reqs, requester_id, receiver_id) ==
    LET hits == {i \in 1..Len(reqs) :
                    reqs[i].requester_id = requester_id /\ reqs[i].receiver_id = receiver_id}
    IN  IF hits = {} THEN NoRequest
        ELSE reqs[CHOOSE i \in hits : \A j \in hits : j <= i]

\* mutant: the lookup finds no row between the pair
existing_not_found(reqs, requester_id, receiver_id) == NoRequest

\* SELECT ... ORDER BY id DESC, fetchone(): the highest-id row between the pair
existing(reqs, requester_id, receiver_id) ==
    LET hits == Between(reqs, requester_id, receiver_id)
    IN  IF hits = {} THEN NoRequest
        ELSE reqs[CHOOSE i \in hits : \A j \in hits : j <= i]

\* mutant: only the receiver id is validated
InvalidIds_receiver_only(requester_id, receiver_id) == IsFalsy(receiver_id)

\* not requester_id or not receiver_id
InvalidIds(requester_id, receiver_id) == IsFalsy(requester_id) \/ IsFalsy(receiver_id)

\* mutant: the self-request check is missing
SelfRequest_unchecked(requester_id, receiver_id) == FALSE

\* requester_id == receiver_id
SelfRequest(requester_id, receiver_id) == requester_id = receiver_id

\* SELECT * FROM users WHERE id = receiver_id found a row
ReceiverFound(usrs, receiver_id) == get_user_by_id(usrs, receiver_id) # NoUserRow

\* mutant: a declined row blocks like an accepted one
AlreadyFriends_or_declined(row) == row.status \in {"accepted", "declined"}

\* mutant: an accepted row does not block
AlreadyFriends_unchecked(row) == FALSE

\* status == "accepted"
AlreadyFriends(row) == row.status = "accepted"

\* mutant: a repeated request is not recognised
AlreadyRequested_unchecked(row, requester_id) == FALSE

\* status == "pending" and existing["requester_id"] == requester_id
AlreadyRequested(row, requester_id) ==
    row.status = "pending" /\ row.requester_id = requester_id

\* mutant: the UPDATE sets the status and leaves the response time alone
UpdateStatus_unstamped(reqs, request_id, status, t) ==
    [i \in 1..Len(reqs) |->
        IF reqs[i].id = request_id THEN [reqs[i] EXCEPT !.status = status] ELSE reqs[i]]

\* UPDATE friend_requests SET status = ?, responded_at = ? WHERE id = ?
UpdateStatus(reqs, request_id, status, t) ==
    [i \in 1..Len(reqs) |->
        IF reqs[i].id = request_id
        THEN [reqs[i] EXCEPT !.status = status, !.responded_at = t]
        ELSE reqs[i]]

\* INSERT INTO friend_requests (requester_id, receiver_id, status, created_at)
InsertPending(reqs, requester_id, receiver_id, t) ==
    Append(reqs, [id |-> Len(reqs) + 1, requester_id |-> requester_id,
                  receiver_id |-> receiver_id, status |-> "pending",
                  created_at |-> t, responded_at |-> NoId])

\* create_friend_request: what it returns, and the table and clock after it
create_friend_request(usrs, reqs, requester_id, receiver_id, t) ==
    LET row == existing(reqs, requester_id, receiver_id)
        Refuse(msg) == [ok |-> FALSE, msg |-> msg, requests |-> reqs, now |-> t]
    IN  IF InvalidIds(requester_id, receiver_id) THEN Refuse("Such invalid fren info.")
        ELSE IF SelfRequest(requester_id, receiver_id)
        THEN Refuse("Cannot request own fren-ness, wow.")
        ELSE IF ~ReceiverFound(usrs, receiver_id) THEN Refuse("No fren found there, much sad.")
        ELSE IF row # NoRequest /\ AlreadyFriends(row) THEN Refuse("Already frens. Much wow.")
        ELSE IF row # NoRequest /\ AlreadyRequested(row, requester_id)
        THEN Refuse("Friend req already zoomed.")
        ELSE IF row # NoRequest /\ row.status = "pending"
        THEN [ok |-> TRUE, msg |-> "Auto accept! Fren energy mutual.",
              requests |-> UpdateStatus(reqs, row.id, "accepted", t), now |-> t + 1]
        ELSE [ok |-> TRUE, msg |-> "Friend req launched. Very wow.",
              requests |-> InsertPending(reqs, requester_id, receiver_id, t), now |-> t + 1]

\* mutant: any user may answer a request that exists
NoSuchRequest_any_responder(req, receiver_id) == req = NoRequest

\* not req or req["receiver_id"] != receiver_id
NoSuchRequest(req, receiver_id) == req = NoRequest \/ req.receiver_id # receiver_id

\* mutant: an answered request may be answered again
AlreadyHandled_unchecked(req) == FALSE

\* req["status"] != "pending"
AlreadyHandled(req) == req.status # "pending"

\* SELECT * FROM friend_requests WHERE id = ?
get_request(reqs, request_id) ==
    LET hits == {i \in 1..Len(reqs) : reqs[i].id = request_id}
    IN  IF hits = {} THEN NoRequest ELSE reqs[CHOOSE i \in hits : TRUE]

\* respond_to_friend_request: what it returns, and the table and clock after it
respond_to_friend_request(reqs, request_id, receiver_id, accept, t) ==
    LET req == get_request(reqs, request_id)
        Refuse(msg) == [ok |-> FALSE, msg |-> msg, requests |-> reqs, now |-> t]
    IN  IF NoSuchRequest(req, receiver_id) THEN Refuse("No such fren ping.")
        ELSE IF AlreadyHandled(req) THEN Refuse("Request already handled wow.")
        ELSE [ok |-> TRUE, msg |-> "Fren request updated. Much decision.",
              requests |-> UpdateStatus(reqs, request_id,
                                        IF accept THEN "accepted" ELSE "declined", t),
              now |-> t + 1]

\* the statements of the two operations that touch storage; "none" is a call
\* during which storage works
Statements == {"connect", "select_user", "select_request", "select_requests", "write", "commit"}

\* mutant: closing the connection keeps what was written and not committed
close_keeps_written(committed, written) == written

\* finally: conn.close(): what was written and not committed is rolled back
close(committed, written) == committed

\* create_friend_request when the statement fault raises: what it returns,
\* the table and clock after it, and the rows the connection had written
\* when it was closed
create_friend_request_faulty(usrs, reqs, requester_id, receiver_id, t, fault) ==
    LET row == existing(reqs, requester_id, receiver_id)
        Refuse(msg) ==
            [ok |-> FALSE, msg |-> msg, requests |-> close(reqs, reqs), now |-> t,
             written |-> reqs]
        Broken(written) ==
            [ok |-> FALSE, msg |-> "Friend req broken rn. Much sorry.",
             requests |-> close(reqs, written), now |-> t, written |-> written]
        Done(msg, written) ==
            IF fault = "write" THEN Broken(reqs)
            ELSE IF fault = "commit" THEN Broken(written)
            ELSE [ok |-> TRUE, msg |-> msg, requests |-> written, now |-> t + 1,
                  written |-> written]
    IN  IF InvalidIds(requester_id, receiver_id) THEN Refuse("Such invalid fren info.")
        ELSE IF SelfRequest(requester_id, receiver_id)
        THEN Refuse("Cannot request own fren-ness, wow.")
        ELSE IF fault \in {"connect", "select_user"} THEN Broken(reqs)
        ELSE IF ~ReceiverFound(usrs, receiver_id) THEN Refuse("No fren found there, much sad.")
        ELSE IF fault = "select_requests" THEN Broken(reqs)
        ELSE IF row # NoRequest /\ AlreadyFriends(row) THEN Refuse("Already frens. Much wow.")
        ELSE IF row # NoRequest /\ AlreadyRequested(row, requester_id)
        THEN Refuse("Friend req already zoomed.")
        ELSE IF row # NoRequest /\ row.status = "pending"
        THEN Done("Auto accept! Fren energy mutual.",
                  UpdateStatus(reqs, row.id, "accepted", t))
        ELSE Done("Friend req launched. Very wow.",
                  InsertPending(reqs, requester_id, receiver_id, t))

\* respond_to_friend_request when the statement fault raises
respond_to_friend_request_faulty(reqs, request_id, receiver_id, accept, t, fault) ==
    LET req == get_request(reqs, request_id)
        Refuse(msg) ==
            [ok |-> FALSE, msg |-> msg, requests |-> close(reqs, reqs), now |-> t,
             written |-> reqs]
        Broken(written) ==
            [ok |-> FALSE, msg |-> "Cannot update fren req atm.",
             requests |-> close(reqs, written), now |-> t, written |-> written]
        updated == UpdateStatus(reqs, request_id,
                                IF accept THEN "accepted" ELSE "declined", t)
    IN  IF fault \in {"connect", "select_request"} THEN Broken(reqs)
        ELSE IF NoSuchRequest(req, receiver_id) THEN Refuse("No such fren ping.")
        ELSE IF AlreadyHandled(req) THEN Refuse("Request already handled wow.")
        ELSE IF fault = "write" THEN Broken(reqs)
        ELSE IF fault = "commit" THEN Broken(updated)
        ELSE [ok |-> TRUE, msg |-> "Fren request updated. Much decision.",
              requests |-> updated, now |-> t + 1, written |-> updated]

\* a < b in SQLite's BINARY collation
RECURSIVE TextLess(_, _)
TextLess(a, b) ==
    IF b = <<>> THEN FALSE
    ELSE IF a = <<>> THEN TRUE
    ELSE IF CharCode[Head(a)] # CharCode[Head(b)] THEN CharCode[Head(a)] < CharCode[Head(b)]
    ELSE TextLess(Tail(a), Tail(b))

\* COALESCE(u.username, u.email, u.login_identifier)
DisplayKey(u) ==
    IF u.username # NoneStr THEN u.username
    ELSE IF u.email # NoneStr THEN u.email
    ELSE u.login_identifier

\* ORDER BY the display key; rows of equal key in id order
RECURSIVE OrderByDisplayKey(_)
OrderByDisplayKey(rows) ==
    IF rows = {} THEN <<>>
    ELSE LET first == CHOOSE u \in rows : \A v \in rows \ {u} :
                          \/ TextLess(DisplayKey(u), DisplayKey(v))
                          \/ DisplayKey(u) = DisplayKey(v) /\ u.id < v.id
         IN  <<first>> \o OrderByDisplayKey(rows \ {first})

\* mutant: only the rows the user sent count
FriendIds_sent_only(reqs, user_id) ==
    {reqs[i].receiver_id : i \in {j \in 1..Len(reqs) :
        reqs[j].requester_id = user_id /\ reqs[j].status = "accepted"}}

\* mutant: rows not yet answered count too
FriendIds_pending_too(reqs, user_id) ==
    {reqs[i].receiver_id : i \in {j \in 1..Len(reqs) :
        reqs[j].requester_id = user_id /\ reqs[j].status \in {"accepted", "pending"}}}
    \cup
    {reqs[i].requester_id : i \in {j \in 1..Len(reqs) :
        reqs[j].receiver_id = user_id /\ reqs[j].status \in {"accepted", "pending"}}}

\* the subquery of list_friends: the other side of every accepted row
FriendIds(reqs, user_id) ==
    {reqs[i].receiver_id : i \in {j \in 1..Len(reqs) :
        reqs[j].requester_id = user_id /\ reqs[j].status = "accepted"}}
    \cup
    {reqs[i].requester_id : i \in {j \in 1..Len(reqs) :
        reqs[j].receiver_id = user_id /\ reqs[j].status = "accepted"}}

list_friends(usrs, reqs, user_id) ==
    OrderByDisplayKey({usrs[i] : i \in {j \in 1..Len(usrs) :
                                          usrs[j].id \in FriendIds(reqs, user_id)}})

\* ORDER BY created_at ASC, id ASC
RECURSIVE OrderByCreated(_)
OrderByCreated(rows) ==
    IF rows = {} THEN <<>>
    ELSE LET first == CHOOSE r \in rows : \A q \in rows \ {r} :
                          \/ r.created_at < q.created_at
                          \/ r.created_at = q.created_at /\ r.id < q.id
         IN  <<first>> \o OrderByCreated(rows \ {first})

\* list_pending_friend_requests: the pending rows sent to user_id whose
\* requester is a stored user (JOIN users), oldest first
list_pending_friend_requests(usrs, reqs, user_id) ==
    OrderByCreated({reqs[i] : i \in {j \in 1..Len(reqs) :
        /\ reqs[j].receiver_id = user_id
        /\ reqs[j].status = "pending"
        /\ get_user_by_id(usrs, reqs[j].requester_id) # NoUserRow}})

\* a list read from its end
Reverse(rows) == [i \in 1..Len(rows) |-> rows[Len(rows) + 1 - i]]

\* mutant: the sent requests are listed oldest first
list_sent_friend_requests_oldest_first(usrs, reqs, user_id) ==
    OrderByCreated({reqs[i] : i \in {j \in 1..Len(reqs) :
        /\ reqs[j].requester_id = user_id
        /\ reqs[j].status = "pending"
        /\ get_user_by_id(usrs, reqs[j].receiver_id) # NoUserRow}})

\* list_sent_friend_requests: the pending rows user_id sent whose receiver is
\* a stored user (JOIN users), ORDER BY created_at DESC, id DESC
list_sent_friend_requests(usrs, reqs, user_id) ==
    Reverse(OrderByCreated({reqs[i] : i \in {j \in 1..Len(reqs) :
        /\ reqs[j].requester_id = user_id
        /\ reqs[j].status = "pending"
        /\ get_user_by_id(usrs, reqs[j].receiver_id) # NoUserRow}}))

----------------------------------------------------------------------------
(* Table giphies and the wall cache *)

\* the part of text s after the last ch, or s when it holds none
RECURSIVE AfterLast(_, _)
AfterLast(s, ch) ==
    IF \A i \in 1..Len(s) : s[i] # ch THEN s
    ELSE AfterLast(Tail(s), ch)

\* the part of text s from the first ch on, or nothing when it holds none
RECURSIVE FromFirst(_, _)
FromFirst(s, ch) ==
    IF s = <<>> \/ Head(s) = ch THEN s ELSE FromFirst(Tail(s), ch)

\* s.rstrip(ch)
RECURSIVE RStripChar(_, _)
RStripChar(s, ch) ==
    IF s # <<>> /\ s[Len(s)] = ch THEN RStripChar(SubSeq(s, 1, Len(s) - 1), ch) ELSE s

\* extract_gif_id, for a link typed without scheme, query or fragment and
\* made of letters, "/" and "-": the letters after the last "/" and "-" of
\* its path, or None when it has no path or they are none
extract_gif_id(raw_url) ==
    LET path == RStripChar(FromFirst(Strip(raw_url), "/"), "/")
        slug == AfterLast(AfterLast(path, "/"), "-")
    IN  IF ~Truthy(raw_url) \/ path = <<>> \/ slug = <<>> THEN NoneStr ELSE slug

\* cur.lastrowid of an INSERT into giphies: one more than the highest id
NextGifId(gifs) == IF gifs = <<>> THEN 1 ELSE gifs[Len(gifs)].id + 1

\* add_giphy: INSERT OR REPLACE on the UNIQUE uuid. The link and thumbnail
\* columns follow from giphy_id, and no operation reads them or the creation
\* stamp back.
add_giphy(gifs, uuid, giphy_id, uploaded_by) ==
    LET Other(g) == g.uuid # uuid
    IN  Append(SelectSeq(gifs, Other),
               [id |-> NextGifId(gifs), uuid |-> uuid, giphy_id |-> giphy_id,
                uploaded_by |-> uploaded_by])

\* delete_giphy_by_uuid: DELETE FROM giphies WHERE uuid = ?
delete_giphy_by_uuid(gifs, uuid) ==
    LET Other(g) == g.uuid # uuid
    IN  SelectSeq(gifs, Other)

\* SELECT * FROM giphies WHERE uploaded_by = ? ORDER BY id DESC
RECURSIVE list_giphies_for_user(_, _)
list_giphies_for_user(gifs, user_id) ==
    IF gifs = <<>> \/ user_id = NoId THEN <<>>
    ELSE LET rest == list_giphies_for_user(SubSeq(gifs, 1, Len(gifs) - 1), user_id)
         IN  IF gifs[Len(gifs)].uploaded_by = user_id
             THEN <<gifs[Len(gifs)]>> \o rest
             ELSE rest

\* load_gifs_from_db: the cards of the owner's rows
load_gifs_from_db(gifs, owner_id) ==
    LET rows == list_giphies_for_user(gifs, owner_id)
    IN  [i \in 1..Len(rows) |-> [uuid |-> rows[i].uuid, gif_id |-> rows[i].giphy_id]]

----------------------------------------------------------------------------
(* st.session_state *)

NoSessUser ==
    [login_identifier |-> NoneStr, username |-> NoneStr, email |-> NoneStr, id |-> NoId]

\* a session with no key set
EmptySession ==
    [user |-> NoSessUser, _active_user_id |-> NoId, active_wall_user_id |-> NoId,
     wall_selector |-> NoId, gifs |-> <<>>, has_gifs |-> FALSE,
     _gifs_for_user_id |-> NoId, friend_reactions |-> <<>>]

\* refresh_wall_gifs(owner_id)
refresh_wall_gifs(sess, gifs, owner_id) ==
    [sess EXCEPT !.gifs = load_gifs_from_db(gifs, owner_id), !.has_gifs = TRUE,
                 !._gifs_for_user_id = owner_id]

\* mutant: two different accounts are not told apart
conflict_unchecked(user_by_username, user_by_email) == FALSE

\* user_by_username and user_by_email and their ids differ
conflict(user_by_username, user_by_email) ==
    /\ user_by_username # NoUserRow
    /\ user_by_email # NoUserRow
    /\ user_by_username.id # user_by_email.id

\* mutant: the username's stored email is not compared
uname_conflict_unchecked(user_by_username, mail) == FALSE

\* user_by_username and mail and its email and mail != its email
uname_conflict(user_by_username, mail) ==
    /\ user_by_username # NoUserRow
    /\ Truthy(mail)
    /\ Truthy(user_by_username.email)
    /\ mail # user_by_username.email

\* mutant: the email's stored username is not compared
mail_conflict_unchecked(user_by_email, uname) == FALSE

\* user_by_email and uname and its username and uname != its username
mail_conflict(user_by_email, uname) ==
    /\ user_by_email # NoUserRow
    /\ Truthy(uname)
    /\ Truthy(user_by_email.username)
    /\ uname # user_by_email.username

\* mutant: a stored account is never reused
existing_user_ignored(user_by_username, user_by_email) == NoUserRow

\* existing = user_by_username or user_by_email
existing_user(user_by_username, user_by_email) ==
    IF user_by_username # NoUserRow THEN user_by_username ELSE user_by_email

\* the login form's submit handler: the message shown, whether a session was
\* established, and the tables, counters and session state after it
login_submit(usrs, gifs, sess, username, email, t, n) ==
    LET uname == StripOrNone(username)
        mail  == StripOrNone(email)
        user_by_username == get_user_by_username(usrs, uname)
        user_by_email    == get_user_by_email(usrs, mail)
        Refuse(msg) == [ok |-> FALSE, msg |-> msg, users |-> usrs, session |-> sess,
                        now |-> t, uuids |-> n]
        found == existing_user(user_by_username, user_by_email)
        drawn == ~Truthy(uname) /\ ~Truthy(mail)
        typed == OrElse(uname, OrElse(mail, Uuid4Hex(n + 1)))
        made  == create_user(usrs, LocalPrefix \o typed, uname, uname, NoneStr, mail, t, n)
        sess_user ==
            IF found # NoUserRow
            THEN [login_identifier |-> OrElse(found.login_identifier, LocalPrefix \o typed),
                  username |-> OrElse(found.username, uname),
                  email |-> OrElse(found.email, mail),
                  id |-> found.id]
            ELSE [login_identifier |-> LocalPrefix \o typed, username |-> uname,
                  email |-> mail, id |-> made.user_id]
        signed == [sess EXCEPT !.user = sess_user, !._active_user_id = sess_user.id,
                               !.active_wall_user_id = sess_user.id,
                               !.wall_selector = sess_user.id]
    IN  IF conflict(user_by_username, user_by_email)
        THEN Refuse("Such mismatch. Username and email belong to diff accounts. Return with matching combo wow.")
        ELSE IF uname_conflict(user_by_username, mail)
        THEN Refuse("Username tied to other email. Much taken.")
        ELSE IF mail_conflict(user_by_email, uname)
        THEN Refuse("Email tied to other username. Very claimed.")
        ELSE [ok |-> TRUE, msg |-> "",
              users |-> IF found # NoUserRow THEN usrs ELSE made.users,
              session |-> refresh_wall_gifs(signed, gifs, sess_user.id),
              now |-> IF found = NoUserRow /\ Len(made.users) > Len(usrs) THEN t + 1 ELSE t,
              uuids |-> IF found = NoUserRow /\ drawn THEN n + 1 ELSE n]

----------------------------------------------------------------------------
(* One run of the page script for a signed-in session *)

\* REACTION_OPTIONS: the labels of the reaction buttons
ReactionLabels == {"Such wow", "Tiny wow", "Boop of wow"}

\* the interaction that starts a run: the widget, and the id, text or label
\* that comes with it
Event(kind, id, text, label) == [kind |-> kind, id |-> id, text |-> text, label |-> label]

\* a run started by no widget: a refresh, or st.rerun()
NoEvent == Event("rerun", NoId, <<>>, "")

\* what a run puts on the screen: the wall owner of its title, whether it
\* treats the wall as the viewer's own, the gif cards, the owner they were
\* loaded for, and whether the reaction buttons and the posting form are there
Page(owner, own, sess) ==
    [screen |-> "wall", owner |-> owner, viewing_self |-> own,
     gifs |-> sess.gifs, gifs_for |-> sess._gifs_for_user_id,
     reactions |-> ~own, posting |-> own]

\* the login screen
LoginScreen ==
    [screen |-> "login", owner |-> NoId, viewing_self |-> FALSE, gifs |-> <<>>,
     gifs_for |-> NoId, reactions |-> FALSE, posting |-> FALSE]

\* friend_lookup: the ids of the friends read at the start of the run
friend_lookup(friends) ==
    {friends[i].id : i \in {j \in 1..Len(friends) : ~IsFalsy(friends[j].id)}}

\* the session keys after the checks at the top of the script
resolve_active_wall(sess, friends) ==
    LET user_id == sess.user.id
        s1 == IF sess._active_user_id # user_id
              THEN [sess EXCEPT !._active_user_id = user_id,
                                !.active_wall_user_id = user_id,
                                !.wall_selector = user_id]
              ELSE sess
        s2 == IF s1.active_wall_user_id = NoId
              THEN [s1 EXCEPT !.active_wall_user_id = user_id]
              ELSE s1
        active_wall_user_id ==
            IF IsFalsy(s2.active_wall_user_id) THEN user_id ELSE s2.active_wall_user_id
    IN  IF active_wall_user_id # user_id /\ active_wall_user_id \notin friend_lookup(friends)
        THEN [s2 EXCEPT !.active_wall_user_id = user_id]
        ELSE s2

\* friend_option_ids: the viewer's id, then the friends' ids
friend_option_ids(user_id, friends) ==
    LET NonZero(uid) == ~IsFalsy(uid)
        NotNone(uid) == uid # NoId
        ids == SelectSeq(<<user_id>> \o SelectSeq([i \in 1..Len(friends) |-> friends[i].id],
                                                  NonZero),
                         NotNone)
    IN  IF ids = <<>> THEN <<user_id>> ELSE ids

\* st.selectbox: the option the visitor picked in this run, or else the
\* option at index
selectbox(options, selector_value, event) ==
    IF event.kind = "pick" /\ \E i \in 1..Len(options) : options[i] = event.id
    THEN event.id
    ELSE selector_value

\* the wall selector: the session keys after it
select_wall(sess, friends, event) ==
    LET user_id == sess.user.id
        options == friend_option_ids(user_id, friends)
        Offered(uid) == \E i \in 1..Len(options) : options[i] = uid
        stored == IF sess.wall_selector = NoId THEN user_id ELSE sess.wall_selector
        selector_value == IF Offered(stored) THEN stored ELSE user_id
        selected_wall == selectbox(options, selector_value, event)
    IN  IF Offered(selected_wall)
        THEN [sess EXCEPT !.wall_selector = selected_wall,
                          !.active_wall_user_id = selected_wall]
        ELSE [sess EXCEPT !.wall_selector = user_id, !.active_wall_user_id = user_id]

\* the cache check: reload when the cache is for another owner or missing
ensure_wall_gifs(sess, gifs) ==
    IF sess._gifs_for_user_id # sess.active_wall_user_id \/ ~sess.has_gifs
    THEN refresh_wall_gifs(sess, gifs, sess.active_wall_user_id)
    ELSE sess

\* the "friend-request" form: the message shown, and the table after it
friend_request_submit(usrs, reqs, user_id, friend_query, t) ==
    LET query  == Strip(OrElse(friend_query, <<>>))
        target == find_user_by_identifier(usrs, query)
        Warn(msg) == [ok |-> FALSE, msg |-> msg, requests |-> reqs, now |-> t]
    IN  IF ~Truthy(query) THEN Warn("Need name/email for fren req. Such empty.")
        ELSE IF target = NoUserRow THEN Warn("No fren found. Much search again.")
        ELSE IF target.id = user_id THEN Warn("That you! Mirror fren not allowed.")
        ELSE create_friend_request(usrs, reqs, user_id, target.id, t)

\* "Much accept" or "Such decline" next to a pending request
pending_request_click(reqs, user_id, request_id, accept, t) ==
    LET r == respond_to_friend_request(reqs, request_id, user_id, accept, t)
    IN  [ok |-> r.ok,
         msg |-> IF ~r.ok THEN r.msg
                 ELSE IF accept THEN "Much accepted wow." ELSE "Declined. Much boundaries.",
         requests |-> r.requests, now |-> r.now]

\* the sidebar's handlers: what the one the event belongs to shows and stores
sidebar(usrs, reqs, user_id, event, t) ==
    LET pending == list_pending_friend_requests(usrs, reqs, user_id)
    IN  IF event.kind = "friend_request"
        THEN friend_request_submit(usrs, reqs, user_id, event.text, t)
        ELSE IF /\ event.kind \in {"accept", "decline"}
                /\ \E i \in 1..Len(pending) : pending[i].id = event.id
        THEN pending_request_click(reqs, user_id, event.id, event.kind = "accept", t)
        ELSE [ok |-> FALSE, msg |-> "", requests |-> reqs, now |-> t]

\* mutant: a click on a reaction button records nothing
react_unrecorded(sess, active_wall_user_id, label) == sess

\* render_reactions, a click on the button of label: one more under
\* (wall, label) in this session's friend_reactions
react(sess, active_wall_user_id, label) ==
    LET key == <<active_wall_user_id, label>>
        counts == sess.friend_reactions
    IN  [sess EXCEPT !.friend_reactions =
            IF key \in DOMAIN counts
            THEN [counts EXCEPT ![key] = @ + 1]
            ELSE counts @@ (key :> 1)]

\* the count the reaction button of label shows on the wall
reaction_count(sess, active_wall_user_id, label) ==
    IF <<active_wall_user_id, label>> \in DOMAIN sess.friend_reactions
    THEN sess.friend_reactions[<<active_wall_user_id, label>>]
    ELSE 0

\* "Return to my wall wow": the session keys after it; the run goes on
return_to_my_wall(sess, gifs) ==
    refresh_wall_gifs([sess EXCEPT !.active_wall_user_id = sess.user.id,
                                   !.wall_selector = sess.user.id],
                      gifs, sess.user.id)

\* add_gif_to_state: the row is stored for the session's user, then the cache
\* is reloaded for the session's active wall
add_gif_to_state(gifs, sess, gif_id, n) ==
    LET stored == add_giphy(gifs, Uuid4Hex(n + 1), gif_id, sess.user.id)
    IN  [giphies |-> stored,
         session |-> refresh_wall_gifs(sess, stored, sess.active_wall_user_id)]

\* delete_gif_from_state
delete_gif_from_state(gifs, sess, uuid) ==
    LET stored == delete_giphy_by_uuid(gifs, uuid)
    IN  [giphies |-> stored,
         session |-> refresh_wall_gifs(sess, stored, sess.active_wall_user_id)]

\* the session keys of a run once the wall to show is settled: the checks at
\* the top, the selector and the cache check, with the friends read at the top
wall_of_run(usrs, reqs, gifs, sess, event) ==
    LET friends == IF IsFalsy(sess.user.id) THEN <<>>
                   ELSE list_friends(usrs, reqs, sess.user.id)
    IN  ensure_wall_gifs(select_wall(resolve_active_wall(sess, friends), friends, event), gifs)

\* mutant: every wall is treated as the viewer's own
viewing_self_always(active_wall_user_id, user_id) == TRUE

\* viewing_self = active_wall_user_id == user_id
viewing_self(active_wall_user_id, user_id) == active_wall_user_id = user_id

\* what a run started by no widget shows: the run st.rerun() starts
rerun(usrs, reqs, gifs, sess) ==
    LET s3 == wall_of_run(usrs, reqs, gifs, sess, NoEvent)
    IN  [session |-> s3,
         shown |-> Page(s3.active_wall_user_id,
                        viewing_self(s3.active_wall_user_id, s3.user.id), s3)]

\* the part of the script below the sidebar, for the session keys s3 the
\* selector left: the wall header, the posting form and the gif cards
wall_body(usrs, reqs, gifs, s3, event, side, t, n) ==
    LET user_id == s3.user.id
        active_wall_user_id == s3.active_wall_user_id
        own == viewing_self(active_wall_user_id, user_id)
        gif_id == extract_gif_id(event.text)
        Run(ok, msg, stored, sess, stamp, draws, shown) ==
            [ok |-> ok, msg |-> msg, requests |-> side.requests, giphies |-> stored,
             session |-> sess, now |-> stamp, uuids |-> draws, shown |-> shown]
    IN  IF ~own /\ event.kind = "react"
        THEN \* the counter is raised, the cards are drawn
             Run(TRUE, "", gifs, react(s3, active_wall_user_id, event.label), t, n,
                 Page(active_wall_user_id, own, s3))
        ELSE IF ~own /\ event.kind = "return"
        THEN \* the keys are reset and the cache reloaded; the run goes on
             Run(TRUE, "", gifs, return_to_my_wall(s3, gifs), t, n,
                 Page(active_wall_user_id, own, return_to_my_wall(s3, gifs)))
        ELSE IF own /\ event.kind = "add" /\ gif_id # NoneStr
        THEN \* the gif is stored, then st.rerun()
             LET added == add_gif_to_state(gifs, s3, gif_id, n)
                 again == rerun(usrs, side.requests, added.giphies, added.session)
             IN  Run(TRUE, "Giphy added, wow!", added.giphies, again.session, t, n + 1,
                     again.shown)
        ELSE IF own /\ event.kind = "add"
        THEN Run(FALSE, "Hmm, link not giphy enough. Much retry.", gifs, s3, t, n,
                 Page(active_wall_user_id, own, s3))
        ELSE IF /\ own
                /\ event.kind = "delete"
                /\ \E i \in 1..Len(s3.gifs) : s3.gifs[i].uuid = event.text
        THEN \* the gif is deleted, then st.rerun()
             LET deleted == delete_gif_from_state(gifs, s3, event.text)
                 again   == rerun(usrs, side.requests, deleted.giphies, deleted.session)
             IN  Run(TRUE, "", deleted.giphies, again.session, t, n, again.shown)
        ELSE Run(side.ok \/ event.kind \in {"rerun", "pick"}, side.msg, gifs, s3,
                 side.now, n, Page(active_wall_user_id, own, s3))

\* one run of the script for a signed-in session: what it shows, and the
\* tables, counters and session keys after it
page_run(usrs, reqs, gifs, sess, event, t, n) ==
    IF event.kind = "logout"
    THEN [ok |-> TRUE, msg |-> "", requests |-> reqs, giphies |-> gifs,
          session |-> EmptySession, now |-> t, uuids |-> n, shown |-> LoginScreen]
    ELSE wall_body(usrs, reqs, gifs, wall_of_run(usrs, reqs, gifs, sess, event), event,
                   sidebar(usrs, reqs, sess.user.id, event, t), t, n)

\* add_giphy when its INSERT or its commit raises: the exception is caught,
\* 0 is returned and no row is stored
add_giphy_failed(gifs, uuid, giphy_id, uploaded_by) == gifs

\* delete_giphy_by_uuid when its DELETE or its commit raises: the exception
\* is caught and the row stays
delete_giphy_by_uuid_failed(gifs, uuid) == gifs

\* add_gif_to_state when add_giphy fails: its result is not looked at, the
\* cache is reloaded
add_gif_to_state_failed(gifs, sess, gif_id, n) ==
    LET stored == add_giphy_failed(gifs, Uuid4Hex(n + 1), gif_id, sess.user.id)
    IN  [giphies |-> stored,
         session |-> refresh_wall_gifs(sess, stored, sess.active_wall_user_id)]

\* delete_gif_from_state when delete_giphy_by_uuid fails
delete_gif_from_state_failed(gifs, sess, uuid) ==
    LET stored == delete_giphy_by_uuid_failed(gifs, uuid)
    IN  [giphies |-> stored,
         session |-> refresh_wall_gifs(sess, stored, sess.active_wall_user_id)]

\* one run of the script during which the gif table cannot be written: the
\* add-giphy form and the delete buttons go on as if it had been
page_run_gif_fault(usrs, reqs, gifs, sess, event, t, n) ==
    LET s3 == wall_of_run(usrs, reqs, gifs, sess, event)
        own == viewing_self(s3.active_wall_user_id, s3.user.id)
        gif_id == extract_gif_id(event.text)
        Run(ok, msg, done, draws) ==
            LET again == rerun(usrs, reqs, done.giphies, done.session)
            IN  [ok |-> ok, msg |-> msg, requests |-> reqs, giphies |-> done.giphies,
                 session |-> again.session, now |-> t, uuids |-> draws,
                 shown |-> again.shown]
    IN  IF own /\ event.kind = "add" /\ gif_id # NoneStr
        THEN Run(TRUE, "Giphy added, wow!", add_gif_to_state_failed(gifs, s3, gif_id, n),
                 n + 1)
        ELSE IF /\ own
                /\ event.kind = "delete"
                /\ \E i \in 1..Len(s3.gifs) : s3.gifs[i].uuid = event.text
        THEN Run(TRUE, "", delete_gif_from_state_failed(gifs, s3, event.text), n)
        ELSE page_run(usrs, reqs, gifs, sess, event, t, n)

----------------------------------------------------------------------------
(* The record of the most recent call *)

Call(op, ok, msg) == [op |-> op, ok |-> ok, msg |-> msg]

NoCall == Call("none", FALSE, "")

Snapshot == [users |-> users, requests |-> requests, sessions |-> sessions]

----------------------------------------------------------------------------
(* The friend-request operations, called with any arguments *)

\* what the people registered when the friend-request operations start typed
\* into the login form: one a username only, one an email only. Callers also
\* pass the next id, which no user has (IdArgs): as a requester it is stored
\* like any other, as a receiver or a responder it is refused.
SignUps == << <<<<"a">>, <<>>>>, <<<<>>, <<"b">>>> >>

\* the installation after the first k of them signed in, one after the other
RECURSIVE Registered(_)
Registered(k) ==
    IF k = 0 THEN [users |-> <<>>, now |-> 0, uuids |-> 0]
    ELSE LET p == Registered(k - 1)
             r == login_submit(p.users, <<>>, EmptySession,
                               SignUps[k][1], SignUps[k][2], p.now, p.uuids)
         IN  [users |-> r.users, now |-> r.now, uuids |-> r.uuids]

\* the ids a caller may pass: None, 0, every stored user and one id not stored
IdArgs == {NoId, 0} \cup (1..(Len(users) + 1))

\* the request ids a caller may pass: every stored row and one id not stored
RequestIdArgs == 1..(Len(requests) + 1)

Init ==
    /\ users = Registered(Len(SignUps)).users
    /\ requests = <<>>
    /\ giphies = <<>>
    /\ now = Registered(Len(SignUps)).now
    /\ uuids = Registered(Len(SignUps)).uuids
    /\ sessions = [s \in Sessions |-> EmptySession]
    /\ last = NoCall
    /\ before = Snapshot

CreateFriendRequest(requester_id, receiver_id) ==
    \E r \in {create_friend_request(users, requests, requester_id, receiver_id, now)} :
        /\ Len(r.requests) <= MaxRequests
        /\ requests' = r.requests
        /\ now' = r.now
        /\ last' = Call("create_friend_request", r.ok, r.msg)
        /\ before' = Snapshot
        /\ UNCHANGED <<users, giphies, uuids, sessions>>

RespondToFriendRequest(request_id, receiver_id, accept) ==
    \E r \in {respond_to_friend_request(requests, request_id, receiver_id, accept, now)} :
        /\ requests' = r.requests
        /\ now' = r.now
        /\ last' = Call("respond_to_friend_request", r.ok, r.msg)
        /\ before' = Snapshot
        /\ UNCHANGED <<users, giphies, uuids, sessions>>

Next ==
    \/ \E requester_id \in IdArgs, receiver_id \in IdArgs :
          CreateFriendRequest(requester_id, receiver_id)
    \/ \E request_id \in RequestIdArgs, receiver_id \in IdArgs, accept \in BOOLEAN :
          RespondToFriendRequest(request_id, receiver_id, accept)

Spec == Init /\ [][Next]_vars

----------------------------------------------------------------------------
(* The friend-request operations on a storage that may fail *)

\* the record of a call during which the statement fault raised; written is
\* what the connection had written when it was closed
FaultyCall(op, r, fault) ==
    [op |-> op, ok |-> r.ok, msg |-> r.msg, fault |-> fault, written |-> r.written]

CreateFriendRequestFaulty(requester_id, receiver_id, fault) ==
    \E r \in {create_friend_request_faulty(users, requests, requester_id, receiver_id,
                                           now, fault)} :
        /\ Len(r.requests) <= MaxRequests
        /\ requests' = r.requests
        /\ now' = r.now
        /\ last' = FaultyCall("create_friend_request", r, fault)
        /\ before' = Snapshot
        /\ UNCHANGED <<users, giphies, uuids, sessions>>

RespondToFriendRequestFaulty(request_id, receiver_id, accept, fault) ==
    \E r \in {respond_to_friend_request_faulty(requests, request_id, receiver_id, accept,
                                               now, fault)} :
        /\ requests' = r.requests
        /\ now' = r.now
        /\ last' = FaultyCall("respond_to_friend_request", r, fault)
        /\ before' = Snapshot
        /\ UNCHANGED <<users, giphies, uuids, sessions>>

\* the ids a caller passes here: 0, every stored user and, as a receiver or a
\* responder, one id not stored
FaultRequesterArgs == 0..Len(users)

FaultIdArgs == 0..(Len(users) + 1)

NextFault ==
    \/ \E requester_id \in FaultRequesterArgs, receiver_id \in FaultIdArgs,
          fault \in Statements \cup {"none"} :
          CreateFriendRequestFaulty(requester_id, receiver_id, fault)
    \/ \E request_id \in RequestIdArgs, receiver_id \in FaultIdArgs, accept \in BOOLEAN,
          fault \in Statements \cup {"none"} :
          RespondToFriendRequestFaulty(request_id, receiver_id, accept, fault)

SpecFault == Init /\ [][NextFault]_vars

----------------------------------------------------------------------------
(* The friend-request operations among three registered users *)

\* what the third person typed into the login form
ThirdSignUp == <<<<"c">>, <<>>>>

\* the installation after the people of SignUps and the third person signed
\* in, one after the other
InitLists ==
    \E p \in {Registered(Len(SignUps))} :
    \E r \in {login_submit(p.users, <<>>, EmptySession, ThirdSignUp[1], ThirdSignUp[2],
                           p.now, p.uuids)} :
        /\ users = r.users
        /\ requests = <<>>
        /\ giphies = <<>>
        /\ now = r.now
        /\ uuids = r.uuids
        /\ sessions = [s \in Sessions |-> EmptySession]
        /\ last = NoCall
        /\ before = Snapshot

\* the calls the page makes: the requester and the responder are signed-in
\* users, the receiver is a user the lookup found. Only the tables are
\* followed here, not the record of the last call.
CreateFriendRequestListed(requester_id, receiver_id) ==
    \E r \in {create_friend_request(users, requests, requester_id, receiver_id, now)} :
        /\ Len(r.requests) <= MaxRequests
        /\ requests' = r.requests
        /\ now' = r.now
        /\ UNCHANGED <<users, giphies, uuids, sessions, last, before>>

RespondToFriendRequestListed(request_id, receiver_id, accept) ==
    \E r \in {respond_to_friend_request(requests, request_id, receiver_id, accept, now)} :
        /\ requests' = r.requests
        /\ now' = r.now
        /\ UNCHANGED <<users, giphies, uuids, sessions, last, before>>

NextLists ==
    \/ \E requester_id \in 1..Len(users), receiver_id \in 1..Len(users) :
          CreateFriendRequestListed(requester_id, receiver_id)
    \/ \E request_id \in 1..Len(requests), receiver_id \in 1..Len(users), accept \in BOOLEAN :
          RespondToFriendRequestListed(request_id, receiver_id, accept)

SpecLists == InitLists /\ [][NextLists]_vars

----------------------------------------------------------------------------
(* Signing in and out, from an empty installation *)

\* what a visitor may type into the Username and the Email field
LoginTexts == {<<>>, <<"a">>, <<"b">>, <<" ", "a">>}

InitLogin ==
    /\ users = <<>>
    /\ requests = <<>>
    /\ giphies = <<>>
    /\ now = 0
    /\ uuids = 0
    /\ sessions = [s \in Sessions |-> EmptySession]
    /\ last = NoCall
    /\ before = Snapshot

\* "Enter, wow" on the login screen, which is shown while no user is signed in
LoginSubmit(s, username, email) ==
    \E r \in {login_submit(users, giphies, sessions[s], username, email, now, uuids)} :
        /\ sessions[s].user = NoSessUser
        /\ Len(r.users) <= MaxUsers
        /\ users' = r.users
        /\ now' = r.now
        /\ uuids' = r.uuids
        /\ sessions' = [sessions EXCEPT ![s] = r.session]
        /\ last' = Call("login", r.ok, r.msg)
        /\ before' = Snapshot
        /\ UNCHANGED <<requests, giphies>>

\* "Logout": st.session_state.clear()
Logout(s) ==
    /\ sessions[s].user # NoSessUser
    /\ sessions' = [sessions EXCEPT ![s] = EmptySession]
    /\ last' = Call("logout", TRUE, "")
    /\ before' = Snapshot
    /\ UNCHANGED <<users, requests, giphies, now, uuids>>

NextLogin ==
    \/ \E s \in Sessions, username \in LoginTexts, email \in LoginTexts :
          LoginSubmit(s, username, email)
    \/ \E s \in Sessions : Logout(s)

SpecLogin == InitLogin /\ [][NextLogin]_vars

----------------------------------------------------------------------------
(* Looking a user up by what a visitor typed *)

\* what the people who sign in here type into the Username and Email fields
FindLoginTexts == {<<>>, <<"a">>, <<"A">>}

\* the identifiers looked up
FindTexts == {<<>>, <<" ">>, <<"a">>, <<" ", "A", " ">>, <<"b">>}

\* find_user_by_identifier(identifier): reads, and changes nothing stored
FindUserByIdentifier(identifier) ==
    \E row \in {find_user_by_identifier(users, identifier)} :
        /\ last' = [op |-> "find_user_by_identifier", ok |-> row # NoUserRow, msg |-> "",
                    identifier |-> identifier, user_id |-> row.id]
        /\ before' = Snapshot
        /\ UNCHANGED <<users, requests, giphies, now, uuids, sessions>>

\* one visitor after the other signs in and out, in the first browser
\* session; between two interactions anybody may be looked up
NextFind ==
    \/ \E username \in FindLoginTexts, email \in FindLoginTexts :
          LoginSubmit(1, username, email)
    \/ Logout(1)
    \/ \E identifier \in FindTexts : FindUserByIdentifier(identifier)

SpecFind == InitLogin /\ [][NextFind]_vars

----------------------------------------------------------------------------
(* Walls: signing in, friend requests, switching walls, posting, deleting,
   reacting, through the page *)

\* what a visitor may type into the "Add fren" field
FriendQueries == {<<"a">>, <<"B">>}

\* what a visitor may type into the gif link field
GifLinks == {<<"a">>, <<"b", "/", "c", "-", "a">>}

\* the interactions a visitor's browser may send: a refresh, the logout
\* button, the wall selector and the "Return to my wall" button
ViewEvents ==
    {NoEvent, Event("logout", NoId, <<>>, ""), Event("return", NoId, <<>>, "")}
    \cup {Event("pick", id, <<>>, "") : id \in 1..Len(users)}

\* the "Add fren" form and the buttons next to a pending request
FriendEvents ==
    {Event("friend_request", NoId, text, "") : text \in FriendQueries}
    \cup {Event(kind, id, <<>>, "") : kind \in {"accept", "decline"}, id \in 1..Len(requests)}

\* the gif link form and the delete button of every gif posted so far
GifEvents ==
    {Event("add", NoId, link, "") : link \in GifLinks}
    \cup {Event("delete", NoId, Uuid4Hex(k), "") : k \in 1..uuids}

\* the reaction buttons
ReactEvents == {Event("react", NoId, <<>>, label) : label \in ReactionLabels}

\* the reactions a session has recorded
ReactionsOf(sess) ==
    LET counts == sess.friend_reactions
        RECURSIVE Sum(_)
        Sum(keys) == IF keys = {} THEN 0
                     ELSE LET k == CHOOSE x \in keys : TRUE
                          IN  counts[k] + Sum(keys \ {k})
    IN  Sum(DOMAIN counts)

\* the reactions the sessions of the process have recorded, all together
RECURSIVE SumReactions(_, _)
SumReactions(all, viewers) ==
    IF viewers = {} THEN 0
    ELSE LET s == CHOOSE x \in viewers : TRUE
         IN  ReactionsOf(all[s]) + SumReactions(all, viewers \ {s})

RecordedReactions(all) == SumReactions(all, DOMAIN all)

\* an installation where the people of SignUps have registered
InitWall ==
    /\ users = Registered(Len(SignUps)).users
    /\ requests = <<>>
    /\ giphies = <<>>
    /\ now = Registered(Len(SignUps)).now
    /\ uuids = Registered(Len(SignUps)).uuids
    /\ sessions = [s \in Sessions |-> EmptySession]
    /\ last = NoCall
    /\ before = Snapshot

\* one run of the page script for a session that is signed in
PageRun(s, event) ==
    \E r \in {page_run(users, requests, giphies, sessions[s], event, now, uuids)} :
        /\ sessions[s].user # NoSessUser
        /\ Len(r.requests) <= MaxRequests
        /\ r.uuids <= MaxGifs
        /\ RecordedReactions([sessions EXCEPT ![s] = r.session]) <= MaxReactions
        /\ requests' = r.requests
        /\ giphies' = r.giphies
        /\ now' = r.now
        /\ uuids' = r.uuids
        /\ sessions' = [sessions EXCEPT ![s] = r.session]
        /\ last' = Call(event.kind, r.ok, r.msg)
        /\ before' = Snapshot
        /\ UNCHANGED users

NextWall ==
    \/ \E s \in Sessions, k \in 1..Len(SignUps) : LoginSubmit(s, SignUps[k][1], SignUps[k][2])
    \/ \E s \in Sessions : \E event \in ViewEvents \cup FriendEvents : PageRun(s, event)

SpecWall == InitWall /\ [][NextWall]_vars

\* the friend zone and the wall selector a run draws for a signed-in viewer:
\* the ids of the pending and of the sent requests and the selector's
\* options, all from the lists read at the top of the run
friend_zone(usrs, reqs, sess) ==
    LET user_id == sess.user.id
        friends == IF IsFalsy(user_id) THEN <<>> ELSE list_friends(usrs, reqs, user_id)
        pending_requests ==
            IF IsFalsy(user_id) THEN <<>> ELSE list_pending_friend_requests(usrs, reqs, user_id)
        sent_requests ==
            IF IsFalsy(user_id) THEN <<>> ELSE list_sent_friend_requests(usrs, reqs, user_id)
    IN  [pending |-> [i \in 1..Len(pending_requests) |-> pending_requests[i].id],
         sent |-> [i \in 1..Len(sent_requests) |-> sent_requests[i].id],
         options |-> friend_option_ids(user_id, friends)]

\* the record of a run of session s: its outcome and the friend zone it drew.
\* The handlers of the "Add fren" form and of the accept and decline buttons
\* show their message and the run goes on with the lists it has.
ZoneRun(s, event, r, zone) ==
    [op |-> event.kind, ok |-> r.ok, msg |-> r.msg, session |-> s, zone |-> zone]

\* one run of the page script, with the friend zone it drew on record
PageRunZone(s, event) ==
    \E r \in {page_run(users, requests, giphies, sessions[s], event, now, uuids)} :
        /\ sessions[s].user # NoSessUser
        /\ Len(r.requests) <= MaxRequests
        /\ requests' = r.requests
        /\ giphies' = r.giphies
        /\ now' = r.now
        /\ uuids' = r.uuids
        /\ sessions' = [sessions EXCEPT ![s] = r.session]
        /\ last' = ZoneRun(s, event, r, friend_zone(users, requests, sessions[s]))
        /\ before' = Snapshot
        /\ UNCHANGED users

\* signing in and out, sending and answering friend requests through the page
NextZone ==
    \/ \E s \in Sessions, k \in 1..Len(SignUps) : LoginSubmit(s, SignUps[k][1], SignUps[k][2])
    \/ \E s \in Sessions : \E event \in ViewEvents \cup FriendEvents : PageRunZone(s, event)

SpecZone == InitWall /\ [][NextZone]_vars

\* the installation after the two registered users became friends: the first
\* sent a request and the second sent one back; the sessions of viewers are
\* at the login screen
Befriended(viewers) ==
    \E p \in {Registered(Len(SignUps))} :
    \E sent \in {create_friend_request(p.users, <<>>, 1, 2, p.now)} :
    \E mutual \in {create_friend_request(p.users, sent.requests, 2, 1, sent.now)} :
        /\ users = p.users
        /\ requests = mutual.requests
        /\ giphies = <<>>
        /\ now = mutual.now
        /\ uuids = p.uuids
        /\ sessions = [s \in viewers |-> EmptySession]
        /\ last = NoCall
        /\ before = Snapshot

InitFriends == Befriended(Sessions)

\* two friends signing in and out, switching walls, posting and deleting gifs
NextGifs ==
    \/ \E s \in Sessions, k \in 1..Len(SignUps) : LoginSubmit(s, SignUps[k][1], SignUps[k][2])
    \/ \E s \in Sessions : \E event \in ViewEvents \cup GifEvents : PageRun(s, event)

SpecGifs == InitFriends /\ [][NextGifs]_vars

\* two friends signing in and out, switching walls and reacting
NextReact ==
    \/ \E s \in Sessions, k \in 1..Len(SignUps) : LoginSubmit(s, SignUps[k][1], SignUps[k][2])
    \/ \E s \in Sessions : \E event \in ViewEvents \cup ReactEvents : PageRun(s, event)

SpecReact == InitFriends /\ [][NextReact]_vars

\* one run of the page script during which the gif table cannot be written
PageRunGifFault(s, event) ==
    \E r \in {page_run_gif_fault(users, requests, giphies, sessions[s], event, now, uuids)} :
        /\ sessions[s].user # NoSessUser
        /\ r.uuids <= MaxGifs
        /\ requests' = r.requests
        /\ giphies' = r.giphies
        /\ now' = r.now
        /\ uuids' = r.uuids
        /\ sessions' = [sessions EXCEPT ![s] = r.session]
        /\ last' = Call(event.kind, r.ok, r.msg)
        /\ before' = Snapshot
        /\ UNCHANGED users

\* two friends posting and deleting gifs on a storage that sometimes fails
NextGifFault ==
    \/ \E s \in Sessions, k \in 1..Len(SignUps) : LoginSubmit(s, SignUps[k][1], SignUps[k][2])
    \/ \E s \in Sessions : \E event \in ViewEvents \cup GifEvents : PageRun(s, event)
    \/ \E s \in Sessions : \E event \in GifEvents : PageRunGifFault(s, event)

SpecGifFault == InitFriends /\ [][NextGifFault]_vars

\* the browser sessions of one server process when more than one is open
Viewers == 1..(NumSessions + 1)

InitShared == Befriended(Viewers)

\* several sessions of one process signing in, switching walls and reacting
NextShared ==
    \/ \E s \in Viewers, k \in 1..Len(SignUps) : LoginSubmit(s, SignUps[k][1], SignUps[k][2])
    \/ \E s \in Viewers : \E event \in ViewEvents \cup ReactEvents : PageRun(s, event)

SpecShared == InitShared /\ [][NextShared]_vars

----------------------------------------------------------------------------
(* The friend-request operations called by several sessions at once *)

\* Each session's script runs in a thread of its own and every call opens a
\* connection of its own. A call reads with SELECT outside any transaction
\* and writes later with one UPDATE or INSERT that it commits at once, so
\* the calls of other sessions can come between its read and its write.
\* Here sessions[s] is the call the script of session s is in: pc is "idle",
\* or the write the call has decided on. Whoever is signed in to the session
\* when the call starts is its requester or responder.
IdleCall ==
    [pc |-> "idle", requester_id |-> NoId, receiver_id |-> NoId, request_id |-> NoId,
     status |-> "none"]

\* the users are registered and no call is under way
InitRace ==
    \E p \in {Registered(Len(SignUps))} :
        /\ users = p.users
        /\ requests = <<>>
        /\ giphies = <<>>
        /\ now = p.now
        /\ uuids = p.uuids
        /\ sessions = [s \in Viewers |-> IdleCall]
        /\ last = NoCall
        /\ before = Snapshot

\* mutant: the row is written only if the lookup, made again, still allows it
insert_request_rechecked(reqs, call, t) ==
    IF existing(reqs, call.requester_id, call.receiver_id) = NoRequest
       \/ existing(reqs, call.requester_id, call.receiver_id).status = "declined"
    THEN InsertPending(reqs, call.requester_id, call.receiver_id, t)
    ELSE reqs

\* the INSERT of create_friend_request, with the ids the call was given
insert_request(reqs, call, t) ==
    InsertPending(reqs, call.requester_id, call.receiver_id, t)

\* create_friend_request up to its reads: it returns at once when it refuses,
\* otherwise it goes on to the write it decided on from the row it read
CreateRead(s, requester_id, receiver_id) ==
    LET row == existing(requests, requester_id, receiver_id)
        r == create_friend_request(users, requests, requester_id, receiver_id, now)
    IN  /\ sessions[s].pc = "idle"
        /\ IF ~r.ok
           THEN /\ last' = Call("create_friend_request", r.ok, r.msg)
                /\ before' = Snapshot
                /\ UNCHANGED sessions
           ELSE /\ sessions' = [sessions EXCEPT ![s] =
                       [@ EXCEPT !.pc = IF row # NoRequest /\ row.status = "pending"
                                        THEN "accept" ELSE "insert",
                                 !.requester_id = requester_id,
                                 !.receiver_id = receiver_id,
                                 !.request_id = row.id]]
                /\ UNCHANGED <<last, before>>
        /\ UNCHANGED <<users, requests, giphies, now, uuids>>

\* create_friend_request from its write on: the UPDATE of the row it read, or
\* the INSERT; commit; return
CreateWrite(s) ==
    /\ sessions[s].pc \in {"accept", "insert"}
    /\ \E written \in {IF sessions[s].pc = "accept"
                       THEN UpdateStatus(requests, sessions[s].request_id, "accepted", now)
                       ELSE insert_request(requests, sessions[s], now)} :
          /\ Len(written) <= MaxRequests
          /\ requests' = written
    /\ now' = now + 1
    /\ sessions' = [sessions EXCEPT ![s] = IdleCall]
    /\ last' = Call("create_friend_request", TRUE,
                    IF sessions[s].pc = "accept" THEN "Auto accept! Fren energy mutual."
                    ELSE "Friend req launched. Very wow.")
    /\ before' = Snapshot
    /\ UNCHANGED <<users, giphies, uuids>>

\* respond_to_friend_request up to its read
RespondRead(s, request_id, receiver_id, accept) ==
    LET r == respond_to_friend_request(requests, request_id, receiver_id, accept, now)
    IN  /\ sessions[s].pc = "idle"
        /\ IF ~r.ok
           THEN /\ last' = Call("respond_to_friend_request", r.ok, r.msg)
                /\ before' = Snapshot
                /\ UNCHANGED sessions
           ELSE /\ sessions' = [sessions EXCEPT ![s] =
                       [@ EXCEPT !.pc = "respond",
                                 !.request_id = request_id,
                                 !.status = IF accept THEN "accepted" ELSE "declined"]]
                /\ UNCHANGED <<last, before>>
        /\ UNCHANGED <<users, requests, giphies, now, uuids>>

\* respond_to_friend_request from its UPDATE on: commit; return
RespondWrite(s) ==
    /\ sessions[s].pc = "respond"
    /\ requests' = UpdateStatus(requests, sessions[s].request_id, sessions[s].status, now)
    /\ now' = now + 1
    /\ sessions' = [sessions EXCEPT ![s] = IdleCall]
    /\ last' = Call("respond_to_friend_request", TRUE, "Fren request updated. Much decision.")
    /\ before' = Snapshot
    /\ UNCHANGED <<users, giphies, uuids>>

NextRace ==
    \/ \E s \in Viewers, requester_id \in 1..Len(users), receiver_id \in 1..Len(users) :
          CreateRead(s, requester_id, receiver_id)
    \/ \E s \in Viewers : CreateWrite(s)
    \/ \E s \in Viewers, request_id \in 1..Len(requests), receiver_id \in 1..Len(users),
          accept \in BOOLEAN :
          RespondRead(s, request_id, receiver_id, accept)
    \/ \E s \in Viewers : RespondWrite(s)

SpecRace == InitRace /\ [][NextRace]_vars

\* the same sessions sending requests only
NextMutual ==
    \/ \E s \in Viewers, requester_id \in 1..Len(users), receiver_id \in 1..Len(users) :
          CreateRead(s, requester_id, receiver_id)
    \/ \E s \in Viewers : CreateWrite(s)

SpecMutual == InitRace /\ [][NextMutual]_vars

----------------------------------------------------------------------------
(* Signing in from several sessions at once *)

\* Here a session also holds where its script is in the submit handler of
\* the login form: pc is "idle", or "create" once the lookups found nobody
\* and create_user is about to be called with uname, mail and identifier.
LoginIdle ==
    [user |-> NoSessUser, _active_user_id |-> NoId, active_wall_user_id |-> NoId,
     wall_selector |-> NoId, gifs |-> <<>>, has_gifs |-> FALSE,
     _gifs_for_user_id |-> NoId, friend_reactions |-> <<>>,
     pc |-> "idle", uname |-> NoneStr, mail |-> NoneStr, identifier |-> NoneStr]

\* what a visitor may type into the Username and the Email field here
SignUpTexts == {<<>>, <<"a">>, <<"b">>}

InitSignUp ==
    /\ users = <<>>
    /\ requests = <<>>
    /\ giphies = <<>>
    /\ now = 0
    /\ uuids = 0
    /\ sessions = [s \in Viewers |-> LoginIdle]
    /\ last = NoCall
    /\ before = Snapshot

\* the submit handler from the return of create_user on: the session keys it
\* sets and the wall it loads
login_created(gifs, sess, user_id) ==
    refresh_wall_gifs(
        [sess EXCEPT !.user = [login_identifier |-> sess.identifier, username |-> sess.uname,
                               email |-> sess.mail, id |-> user_id],
                     !._active_user_id = user_id,
                     !.active_wall_user_id = user_id,
                     !.wall_selector = user_id,
                     !.pc = "idle", !.uname = NoneStr, !.mail = NoneStr,
                     !.identifier = NoneStr],
        gifs, user_id)

\* "Enter, wow" up to the call of create_user. A refused login and the login
\* of a stored account only read the tables and end here.
LoginRead(s, username, email) ==
    LET uname == StripOrNone(username)
        mail  == StripOrNone(email)
        found == existing_user(get_user_by_username(users, uname),
                               get_user_by_email(users, mail))
        drawn == ~Truthy(uname) /\ ~Truthy(mail)
        typed == OrElse(uname, OrElse(mail, Uuid4Hex(uuids + 1)))
    IN  /\ sessions[s].pc = "idle"
        /\ sessions[s].user = NoSessUser
        /\ \E r \in {login_submit(users, giphies, sessions[s], username, email, now, uuids)} :
              IF ~r.ok \/ found # NoUserRow
              THEN /\ sessions' = [sessions EXCEPT ![s] = r.session]
                   /\ last' = Call("login", r.ok, r.msg)
                   /\ before' = Snapshot
                   /\ UNCHANGED <<users, requests, giphies, now, uuids>>
              ELSE /\ sessions' = [sessions EXCEPT ![s].pc = "create", ![s].uname = uname,
                                                   ![s].mail = mail,
                                                   ![s].identifier = LocalPrefix \o typed]
                   /\ uuids' = IF drawn THEN uuids + 1 ELSE uuids
                   /\ UNCHANGED <<users, requests, giphies, now, last, before>>

\* create_user and the rest of the handler
LoginCreate(s) ==
    /\ sessions[s].pc = "create"
    /\ \E made \in {create_user(users, sessions[s].identifier, sessions[s].uname,
                                sessions[s].uname, NoneStr, sessions[s].mail, now, uuids)} :
          /\ Len(made.users) <= MaxUsers
          /\ users' = made.users
          /\ now' = IF Len(made.users) > Len(users) THEN now + 1 ELSE now
          /\ sessions' = [sessions EXCEPT
                             ![s] = login_created(giphies, sessions[s], made.user_id)]
    /\ last' = Call("login", TRUE, "")
    /\ before' = Snapshot
    /\ UNCHANGED <<requests, giphies, uuids>>

NextSignUp ==
    \/ \E s \in Viewers, username \in SignUpTexts, email \in SignUpTexts :
          LoginRead(s, username, email)
    \/ \E s \in Viewers : LoginCreate(s)

SpecSignUp == InitSignUp /\ [][NextSignUp]_vars

\* create_user fails, and the rest of the handler
LoginCreateFailed(s) ==
    /\ sessions[s].pc = "create"
    /\ \E made \in {create_user_failed(users, sessions[s].identifier, sessions[s].uname,
                                       sessions[s].uname, NoneStr, sessions[s].mail, now,
                                       uuids)} :
          /\ users' = made.users
          /\ sessions' = [sessions EXCEPT
                             ![s] = login_created(giphies, sessions[s], made.user_id)]
    /\ last' = Call("login", TRUE, "")
    /\ before' = Snapshot
    /\ UNCHANGED <<requests, giphies, now, uuids>>

NextSignUpFault ==
    \/ \E s \in Viewers, username \in SignUpTexts, email \in SignUpTexts :
          LoginRead(s, username, email)
    \/ \E s \in Viewers : LoginCreate(s)
    \/ \E s \in Viewers : LoginCreateFailed(s)

SpecSignUpFault == InitSignUp /\ [][NextSignUpFault]_vars

----------------------------------------------------------------------------
(* Vocabulary of the properties *)

\* user_id is the id of a stored user
UserExists(user_id) == \E i \in 1..Len(users) : users[i].id = user_id

\* a and b are the ids of two different stored users
TwoUsers(a, b) == UserExists(a) /\ UserExists(b) /\ a # b

\* what create_friend_request(a, b), called in this state, returns and stores:
\* the value CreateFriendRequest(a, b) moves to
CreateResult(a, b) == create_friend_request(users, requests, a, b, now)

\* the same for respond_to_friend_request and RespondToFriendRequest
RespondResult(request_id, receiver_id, accept) ==
    respond_to_friend_request(requests, request_id, receiver_id, accept, now)

\* row is a pending request from a to b that was never answered
IsPendingFromTo(row, a, b) ==
    /\ row.requester_id = a
    /\ row.receiver_id = b
    /\ row.status = "pending"
    /\ row.responded_at = NoId

\* table new is table old plus one pending row a -> b
InsertedPending(old, new, a, b) ==
    /\ Len(new) = Len(old) + 1
    /\ SubSeq(new, 1, Len(old)) = old
    /\ IsPendingFromTo(new[Len(new)], a, b)

\* the call reports failure and leaves every row as it was
Refused(r) == ~r.ok /\ r.requests = requests

\* the state is the one a successful create_friend_request(a, b) left, which
\* found no row between a and b and inserted one
JustRequested(a, b) ==
    /\ last.op = "create_friend_request"
    /\ last.ok
    /\ Between(before.requests, a, b) = {}
    /\ InsertedPending(before.requests, requests, a, b)

\* the state is the one a successful decline of a pending row between a and b left
JustDeclined(a, b) ==
    /\ last.op = "respond_to_friend_request"
    /\ last.ok
    /\ Len(requests) = Len(before.requests)
    /\ \E k \in Between(requests, a, b) :
          /\ before.requests[k].status = "pending"
          /\ requests[k].status = "declined"

\* the ids of the users list_friends returns
FriendsOf(usrs, reqs, user_id) ==
    {list_friends(usrs, reqs, user_id)[i].id :
        i \in 1..Len(list_friends(usrs, reqs, user_id))}

----------------------------------------------------------------------------
(* Properties of the friend-request operations *)

\* C1: between two different users with no row between them, whose receiver
\* exists, create_friend_request succeeds and inserts exactly one pending row
\* requester -> receiver; the same call made again right after it reports
\* failure and leaves the table as it was.
C1_FirstRequestThenRepeat ==
    \A a \in IdArgs, b \in IdArgs : \A r \in {CreateResult(a, b)} :
        /\ (/\ ~IsFalsy(a) /\ ~IsFalsy(b) /\ a # b /\ UserExists(b)
            /\ Between(requests, a, b) = {})
              => r.ok /\ InsertedPending(requests, r.requests, a, b)
        /\ JustRequested(a, b) => Refused(r)

\* C1 witness: the only row is a pending one, and the last call, a repeat of
\* the request that made it, was refused and changed nothing.
C1_Witness ==
    /\ last.op = "create_friend_request"
    /\ last.msg = "Friend req already zoomed."
    /\ ~last.ok
    /\ Len(requests) = 1
    /\ requests[1].status = "pending"
    /\ before.requests = requests

\* C2: after create_friend_request(A, B) found no row between the existing
\* users A and B and inserted one, create_friend_request(B, A) leaves exactly
\* one row between them: that same row, now accepted with a response stamp;
\* no row is inserted, and each of the two is in the other's list_friends.
C2_MutualRequestAccepts ==
    \A a \in IdArgs, b \in IdArgs :
        (TwoUsers(a, b) /\ JustRequested(a, b)) =>
            \A r \in {CreateResult(b, a)} :
                /\ r.ok
                /\ Len(r.requests) = Len(requests)
                /\ Between(r.requests, a, b) = {Len(requests)}
                /\ \A i \in 1..(Len(requests) - 1) : r.requests[i] = requests[i]
                /\ r.requests[Len(requests)].id = requests[Len(requests)].id
                /\ r.requests[Len(requests)].requester_id = a
                /\ r.requests[Len(requests)].receiver_id = b
                /\ r.requests[Len(requests)].created_at = requests[Len(requests)].created_at
                /\ r.requests[Len(requests)].status = "accepted"
                /\ r.requests[Len(requests)].responded_at # NoId
                /\ b \in FriendsOf(users, r.requests, a)
                /\ a \in FriendsOf(users, r.requests, b)

\* C2 witness: the only row was pending before the last call, a request sent
\* back by its receiver, and is accepted after it.
C2_Witness ==
    /\ last.op = "create_friend_request"
    /\ last.msg = "Auto accept! Fren energy mutual."
    /\ Len(requests) = 1
    /\ Len(before.requests) = 1
    /\ before.requests[1].status = "pending"
    /\ requests[1].status = "accepted"
    /\ requests[1].responded_at # NoId
    /\ requests[1].requester_id \in FriendsOf(users, requests, requests[1].receiver_id)
    /\ requests[1].receiver_id \in FriendsOf(users, requests, requests[1].requester_id)

\* C3: respond_to_friend_request on a row already accepted or declined reports
\* failure, whoever responds and whatever the answer, and changes no row.
C3_AnsweredStaysAnswered ==
    \A request_id \in 1..Len(requests), receiver_id \in IdArgs, accept \in BOOLEAN :
        requests[request_id].status \in {"accepted", "declined"}
            => Refused(RespondResult(request_id, receiver_id, accept))

\* C3 witness: the receiver of a declined row answered it again and was refused.
C3_Witness ==
    /\ last.op = "respond_to_friend_request"
    /\ last.msg = "Request already handled wow."
    /\ ~last.ok
    /\ before.requests = requests
    /\ \E i \in 1..Len(requests) : requests[i].status = "declined"

\* C4: right after the receiver declined a pending row between the users A and
\* B, create_friend_request between them, in either direction, succeeds and
\* inserts a new pending row; the declined row stays as it is.
C4_DeclineThenReapply ==
    \A a \in IdArgs, b \in IdArgs :
        (TwoUsers(a, b) /\ JustDeclined(a, b)) =>
            \A r \in {CreateResult(a, b)} :
                /\ r.ok
                /\ InsertedPending(requests, r.requests, a, b)
                /\ \E k \in Between(r.requests, a, b) :
                      k <= Len(requests) /\ r.requests[k].status = "declined"

\* C4 witness: a declined row, and after it a pending row between the same two
\* users sent by the one who declined, inserted by the last call.
C4_Witness ==
    /\ last.op = "create_friend_request"
    /\ last.ok
    /\ Len(requests) = 2
    /\ before.requests = <<requests[1]>>
    /\ requests[1].status = "declined"
    /\ requests[2].status = "pending"
    /\ requests[2].requester_id = requests[1].receiver_id
    /\ requests[2].receiver_id = requests[1].requester_id

\* C5: create_friend_request(A, A) reports failure and inserts nothing, for
\* every A, and no stored row has its requester as its receiver.
C5_NoSelfRequest ==
    /\ \A a \in IdArgs : Refused(CreateResult(a, a))
    /\ \A i \in 1..Len(requests) : requests[i].requester_id # requests[i].receiver_id

\* C5 witness: a user asked to befriend themselves and was refused.
C5_Witness ==
    /\ last.op = "create_friend_request"
    /\ last.msg = "Cannot request own fren-ness, wow."
    /\ ~last.ok
    /\ before.requests = requests

\* C6: respond_to_friend_request changes a row only for that row's receiver:
\* called by anyone else, or with an id no row has, it reports failure and
\* changes no row.
C6_OnlyReceiverResponds ==
    \A request_id \in RequestIdArgs, receiver_id \in IdArgs, accept \in BOOLEAN :
        (\/ request_id \notin 1..Len(requests)
         \/ requests[request_id].receiver_id # receiver_id)
            => Refused(RespondResult(request_id, receiver_id, accept))

\* C6 witness: the only row is pending and stays so after a response that did
\* not come from its receiver, or named another id, was refused.
C6_Witness ==
    /\ last.op = "respond_to_friend_request"
    /\ last.msg = "No such fren ping."
    /\ ~last.ok
    /\ Len(requests) = 1
    /\ requests[1].status = "pending"
    /\ before.requests = requests

\* C7: when the highest-id row between A and B is accepted,
\* create_friend_request between them, in either direction, reports failure,
\* inserts nothing and changes no row.
C7_AlreadyFriendsRefused ==
    \A a \in IdArgs, b \in IdArgs :
        (\E k \in Between(requests, a, b) :
            /\ \A j \in Between(requests, a, b) : j <= k
            /\ requests[k].status = "accepted")
            => Refused(CreateResult(a, b)) /\ Refused(CreateResult(b, a))

\* C7 witness: a request between two friends whose accepted row follows an
\* older declined one was refused.
C7_Witness ==
    /\ last.op = "create_friend_request"
    /\ last.msg = "Already frens. Much wow."
    /\ ~last.ok
    /\ Len(requests) = 2
    /\ requests[1].status = "declined"
    /\ requests[2].status = "accepted"
    /\ Between(requests, requests[1].requester_id, requests[1].receiver_id) = {1, 2}
    /\ before.requests = requests

\* C8: create_friend_request reports failure and inserts nothing when the
\* receiver id is not the id of a stored user, or either id is None or zero.
C8_InvalidIdsRefused ==
    \A a \in IdArgs, b \in IdArgs :
        (IsFalsy(a) \/ IsFalsy(b) \/ ~UserExists(b)) => Refused(CreateResult(a, b))

\* C8 witness: a request to an id that no user has was refused.
C8_Witness ==
    /\ last.op = "create_friend_request"
    /\ last.msg = "No fren found there, much sad."
    /\ ~last.ok
    /\ before.requests = requests

----------------------------------------------------------------------------
(* Properties of the login form *)

\* what the login form's submit handler, run in this state for session s,
\* shows and stores: the value LoginSubmit(s, username, email) moves to
LoginResult(s, username, email) ==
    login_submit(users, giphies, sessions[s], username, email, now, uuids)

\* the text the handler looks up: the field's text without surrounding blanks
Supplied(text) == Strip(text)

\* the login is rejected: nothing is signed in, no user row is created or
\* changed, and the session keeps no user and no active wall
LoginRejected(s, r) ==
    /\ ~r.ok
    /\ r.users = users
    /\ r.session = sessions[s]
    /\ r.session.user = NoSessUser
    /\ r.session.active_wall_user_id = NoId

\* C9: when the supplied username is the username of one user and the supplied
\* email is the email of a different user, the login is rejected: no user row
\* is created or changed and the session stays signed out, with no session
\* user and no active wall.
C9_TwoAccountsConflict ==
    \A s \in Sessions, username \in LoginTexts, email \in LoginTexts :
        (/\ sessions[s].user = NoSessUser
         /\ Supplied(username) # <<>>
         /\ Supplied(email) # <<>>
         /\ \E i \in 1..Len(users), j \in 1..Len(users) :
               /\ users[i].username = Supplied(username)
               /\ users[j].email = Supplied(email)
               /\ users[i].id # users[j].id)
            => LoginRejected(s, LoginResult(s, username, email))

\* C9 witness: a login naming one account's username and another account's
\* email was rejected and changed nothing.
C9_Witness ==
    /\ last.op = "login"
    /\ ~last.ok
    /\ last.msg = "Such mismatch. Username and email belong to diff accounts. Return with matching combo wow."
    /\ users = before.users
    /\ sessions = before.sessions
    /\ \E i \in 1..Len(users), j \in 1..Len(users) :
          /\ i # j
          /\ users[i].username # NoneStr
          /\ users[j].email # NoneStr

\* C10: when both a username and an email are supplied and the user holding
\* that username holds a different, non-null email, or the user holding that
\* email holds a different, non-null username, the login is rejected: no
\* session is established and no user row is created or changed.
C10_BoundElsewhereConflict ==
    \A s \in Sessions, username \in LoginTexts, email \in LoginTexts :
        (/\ sessions[s].user = NoSessUser
         /\ Supplied(username) # <<>>
         /\ Supplied(email) # <<>>
         /\ \/ \E i \in 1..Len(users) :
                  /\ users[i].username = Supplied(username)
                  /\ users[i].email # NoneStr
                  /\ users[i].email # Supplied(email)
            \/ \E j \in 1..Len(users) :
                  /\ users[j].email = Supplied(email)
                  /\ users[j].username # NoneStr
                  /\ users[j].username # Supplied(username))
            => LoginRejected(s, LoginResult(s, username, email))

\* C10 witness: a login with the username of an account that holds another
\* email was rejected and changed nothing.
C10_Witness ==
    /\ last.op = "login"
    /\ ~last.ok
    /\ last.msg = "Username tied to other email. Much taken."
    /\ users = before.users
    /\ sessions = before.sessions

\* the rows a lookup of the supplied username or email finds
MatchedRows(username, email) ==
    {i \in 1..Len(users) :
        \/ Supplied(username) # <<>> /\ users[i].username = Supplied(username)
        \/ Supplied(email) # <<>> /\ users[i].email = Supplied(email)}

\* C11: when the supplied username or email is that of a stored user and the
\* login finds no conflict, it reuses that user: no user row is added, no
\* stored field of any user changes, the session's user id is the id of a
\* matched row, and the active wall is that same id.
C11_LoginReusesMatch ==
    \A s \in Sessions, username \in LoginTexts, email \in LoginTexts :
        (/\ sessions[s].user = NoSessUser
         /\ MatchedRows(username, email) # {})
            => \A r \in {LoginResult(s, username, email)} :
                  r.ok => /\ r.users = users
                          /\ \E i \in MatchedRows(username, email) :
                                /\ r.session.user.id = users[i].id
                                /\ r.session.active_wall_user_id = users[i].id

\* C11 witness: a user who holds a username and an email signed in again and
\* the session got that user's id and wall; the table is as it was.
C11_Witness ==
    /\ last.op = "login"
    /\ last.ok
    /\ users = before.users
    /\ \E s \in Sessions, i \in 1..Len(users) :
          /\ before.sessions[s].user = NoSessUser
          /\ users[i].username # NoneStr
          /\ users[i].email # NoneStr
          /\ sessions[s].user.id = users[i].id
          /\ sessions[s].active_wall_user_id = users[i].id

\* C12: when no stored user holds the supplied username and none holds the
\* supplied email, the login adds exactly one user row, which carries the
\* supplied username and email, and the session's user id is the id of that
\* row and of no user stored before.
C12_LoginCreatesUser ==
    \A s \in Sessions, username \in LoginTexts, email \in LoginTexts :
        \A r \in {LoginResult(s, username, email)} :
            (/\ sessions[s].user = NoSessUser
             /\ MatchedRows(username, email) = {})
                => /\ r.ok
                   /\ Len(r.users) = Len(users) + 1
                   /\ SubSeq(r.users, 1, Len(users)) = users
                   /\ r.users[Len(r.users)].username = StripOrNone(username)
                   /\ r.users[Len(r.users)].email = StripOrNone(email)
                   /\ r.session.user.id = r.users[Len(r.users)].id
                   /\ \A i \in 1..Len(users) : users[i].id # r.session.user.id

----------------------------------------------------------------------------
(* Properties of the page: which wall, who may post and delete *)

\* session s is signed in
SignedIn(s) == sessions[s].user # NoSessUser

\* what a run of the page script for session s, started by event in this
\* state, shows and stores: the value PageRun(s, event) moves to
PageResult(s, event) ==
    page_run(users, requests, giphies, sessions[s], event, now, uuids)

\* some row between a and b in table reqs is accepted
AcceptedBetween(reqs, a, b) ==
    \E k \in Between(reqs, a, b) : reqs[k].status = "accepted"

\* viewer may see the wall of owner: it is the viewer's own, or owner is in
\* list_friends(viewer) and an accepted request joins the two
MaySee(reqs, viewer, owner) ==
    \/ owner = viewer
    \/ /\ owner \in FriendsOf(users, reqs, viewer)
       /\ AcceptedBetween(reqs, viewer, owner)

\* session s with owner_id stored as its active wall and as its selector value
WithStoredWall(s, owner_id) ==
    [sessions[s] EXCEPT !.active_wall_user_id = owner_id, !.wall_selector = owner_id]

\* C13: the wall a signed-in viewer's page run shows, and the active wall it
\* leaves in the session, is the viewer's own or that of a user who is in
\* list_friends(viewer) once the run is over; and a run that finds stored, as
\* active wall and selector value, an id that is neither, shows and stores
\* the viewer's own wall.
C13_WallIsOwnOrFriends ==
    \A s \in Sessions :
        SignedIn(s) =>
            /\ \A event \in (ViewEvents \cup FriendEvents) \ {Event("logout", NoId, <<>>, "")} :
                  \A r \in {PageResult(s, event)} :
                      /\ MaySee(r.requests, sessions[s].user.id, r.shown.owner)
                      /\ MaySee(r.requests, sessions[s].user.id, r.session.active_wall_user_id)
            /\ \A owner_id \in IdArgs :
                  ~MaySee(requests, sessions[s].user.id, owner_id) =>
                      \A r \in {page_run(users, requests, giphies, WithStoredWall(s, owner_id),
                                         NoEvent, now, uuids)} :
                          /\ r.shown.owner = sessions[s].user.id
                          /\ r.session.active_wall_user_id = sessions[s].user.id
                          /\ r.session.wall_selector = sessions[s].user.id

\* C13 witness: a viewer picked a friend's wall in the selector and the
\* session now shows it; the friendship was made through the page.
C13_Witness ==
    /\ last.op = "pick"
    /\ last.ok
    /\ \E s \in Sessions :
          /\ SignedIn(s)
          /\ sessions[s].active_wall_user_id # sessions[s].user.id
          /\ before.sessions[s].active_wall_user_id = sessions[s].user.id
          /\ MaySee(requests, sessions[s].user.id, sessions[s].active_wall_user_id)

\* the gif rows of table new that table old does not hold
RowsAdded(old, new) ==
    {new[i] : i \in {j \in 1..Len(new) : \A k \in 1..Len(old) : old[k] # new[j]}}

\* C14: a page run adds a gif row only with uploaded_by equal to its session's
\* user id, and only when it leaves that session on its own wall; it removes
\* only rows whose uploaded_by is its session's user id; and a run that starts
\* or ends on a friend's wall adds and removes no row.
C14_PostAndDeleteOnOwnWall ==
    \A s \in Sessions :
        SignedIn(s) =>
            \A event \in ViewEvents \cup GifEvents : \A r \in {PageResult(s, event)} :
                /\ \A g \in RowsAdded(giphies, r.giphies) :
                      /\ g.uploaded_by = sessions[s].user.id
                      /\ r.session.active_wall_user_id = sessions[s].user.id
                      /\ r.shown.owner = sessions[s].user.id
                /\ \A g \in RowsAdded(r.giphies, giphies) :
                      g.uploaded_by = sessions[s].user.id
                /\ (/\ r.shown.screen = "wall"
                    /\ r.shown.owner # sessions[s].user.id) => r.giphies = giphies
                /\ (/\ sessions[s].active_wall_user_id # sessions[s].user.id
                    /\ event.kind # "pick") => r.giphies = giphies

\* C14 witness: a viewer posted a gif on their own wall while another user's
\* gif is stored: the new row is theirs and their session shows it.
C14_Witness ==
    /\ last.op = "add"
    /\ last.ok
    /\ Len(giphies) = 2
    /\ giphies[1].uploaded_by # giphies[2].uploaded_by
    /\ \E s \in Sessions :
          /\ SignedIn(s)
          /\ giphies[2].uploaded_by = sessions[s].user.id
          /\ sessions[s].active_wall_user_id = sessions[s].user.id
          /\ Len(sessions[s].gifs) = 1
          /\ sessions[s].gifs[1].uuid = giphies[2].uuid

----------------------------------------------------------------------------
(* Properties of the page: reactions *)

\* the wall session s is on: the owner a run started by no widget shows
WallOf(s) == PageResult(s, NoEvent).shown.owner

\* the (wall, label) pairs a reaction can be recorded under
ReactionKeys == IdArgs \X ReactionLabels

\* sess counts one more than session s under (wall, label) and the same as s
\* under every other pair
OneMoreReaction(s, sess, wall, label) ==
    /\ reaction_count(sess, wall, label) = reaction_count(sessions[s], wall, label) + 1
    /\ \A key \in ReactionKeys \ {<<wall, label>>} :
          reaction_count(sess, key[1], key[2]) = reaction_count(sessions[s], key[1], key[2])

\* C15 as claimed: on every wall a signed-in viewer is on, their own included,
\* the reaction buttons are rendered and a click on one is recorded.
C15_ReactOnEveryWall ==
    \A s \in Sessions :
        SignedIn(s) =>
            /\ PageResult(s, NoEvent).shown.reactions
            /\ \A label \in ReactionLabels :
                  OneMoreReaction(s, PageResult(s, Event("react", NoId, <<>>, label)).session,
                                  WallOf(s), label)

\* C15: the reaction buttons are rendered exactly by the runs that show the
\* wall of a current friend of the viewer; a click on one then adds one under
\* (that wall, its label) in the viewer's session and changes no other count;
\* on the viewer's own wall no button is rendered and a reaction event
\* records nothing.
C15_ReactOnFriendsWallOnly ==
    \A s \in Sessions :
        SignedIn(s) =>
            /\ \A event \in (ViewEvents \cup ReactEvents) \ {Event("logout", NoId, <<>>, "")} :
                  \A r \in {PageResult(s, event)} :
                      r.shown.reactions <=>
                          /\ r.shown.owner # sessions[s].user.id
                          /\ r.shown.owner \in FriendsOf(users, requests, sessions[s].user.id)
            /\ \A event \in ReactEvents : \A r \in {PageResult(s, event)} :
                  IF WallOf(s) = sessions[s].user.id
                  THEN r.session.friend_reactions = sessions[s].friend_reactions
                  ELSE /\ WallOf(s) \in FriendsOf(users, requests, sessions[s].user.id)
                       /\ OneMoreReaction(s, r.session, WallOf(s), event.label)

\* C15 witness: a viewer on a friend's wall clicked a reaction button and
\* their session counts it.
C15_Witness ==
    /\ last.op = "react"
    /\ last.ok
    /\ \E s \in Sessions :
          /\ SignedIn(s)
          /\ sessions[s].active_wall_user_id # sessions[s].user.id
          /\ MaySee(requests, sessions[s].user.id, sessions[s].active_wall_user_id)
          /\ \E label \in ReactionLabels :
                /\ reaction_count(sessions[s], sessions[s].active_wall_user_id, label) = 1
                /\ reaction_count(before.sessions[s], sessions[s].active_wall_user_id, label) = 0

\* C16 as claimed: when two sessions of the process are shown the reaction
\* buttons of the same wall, each sees under every label at least the
\* reactions the other recorded on that wall.
C16_ReactionsSharedBySessions ==
    \A s \in DOMAIN sessions, t \in DOMAIN sessions :
        (/\ s # t
         /\ sessions[s].user # NoSessUser
         /\ sessions[t].user # NoSessUser
         /\ rerun(users, requests, giphies, sessions[t]).shown.reactions
         /\ rerun(users, requests, giphies, sessions[t]).shown.owner
                = sessions[s].active_wall_user_id) =>
            \A label \in ReactionLabels :
                reaction_count(sessions[t], sessions[s].active_wall_user_id, label)
                    >= reaction_count(sessions[s], sessions[s].active_wall_user_id, label)

----------------------------------------------------------------------------
(* Properties of the page: the gif cards and the wall they belong to *)

\* the rows list_giphies_for_user(owner_id) returns, as uuids
StoredFor(gifs, owner_id) ==
    {gifs[i].uuid : i \in {j \in 1..Len(gifs) : gifs[j].uploaded_by = owner_id}}

\* C17 as claimed: in every page run of a signed-in session the gif cards were
\* loaded for the owner the run shows in its title, they are that owner's
\* stored gifs, and the run treats the wall as the viewer's own exactly when
\* that owner is the viewer.
C17_GifsOfShownOwner ==
    \A s \in Sessions :
        SignedIn(s) =>
            \A event \in (ViewEvents \cup GifEvents) \ {Event("logout", NoId, <<>>, "")} :
                \A r \in {PageResult(s, event)} :
                    /\ r.shown.gifs_for = r.shown.owner
                    /\ {r.shown.gifs[i].uuid : i \in 1..Len(r.shown.gifs)}
                          = StoredFor(r.giphies, r.shown.owner)
                    /\ r.shown.viewing_self <=> (r.shown.owner = sessions[s].user.id)

----------------------------------------------------------------------------
(* Properties of list_friends, of failing storage and of the user lookup *)

\* the ids of the stored users
UserIds == {users[i].id : i \in 1..Len(users)}

\* C18: for all stored users A and B, B is in list_friends(A) exactly when A
\* is in list_friends(B); and the two users of an accepted row are in each
\* other's list, whichever of them was the requester.
C18_FriendsSymmetric ==
    /\ \A a \in UserIds, b \in UserIds :
          b \in FriendsOf(users, requests, a) <=> a \in FriendsOf(users, requests, b)
    /\ \A k \in 1..Len(requests) :
          (/\ requests[k].status = "accepted"
           /\ requests[k].requester_id \in UserIds
           /\ requests[k].receiver_id \in UserIds) =>
              /\ requests[k].receiver_id \in FriendsOf(users, requests, requests[k].requester_id)
              /\ requests[k].requester_id \in FriendsOf(users, requests, requests[k].receiver_id)

\* C18 witness: the receiver accepted a pending row of another user, and each
\* of the two is now in the other's list_friends and was not before.
C18_Witness ==
    /\ last.op = "respond_to_friend_request"
    /\ last.ok
    /\ \E k \in 1..Len(requests) :
          /\ before.requests[k].status = "pending"
          /\ requests[k].status = "accepted"
          /\ requests[k].requester_id \in UserIds
          /\ requests[k].receiver_id \in UserIds
          /\ requests[k].receiver_id \in FriendsOf(users, requests, requests[k].requester_id)
          /\ requests[k].requester_id \in FriendsOf(users, requests, requests[k].receiver_id)
          /\ requests[k].requester_id
                \notin FriendsOf(users, before.requests, requests[k].receiver_id)

\* the statements create_friend_request runs when storage works and it
\* returns msg
CreateStatements(msg) ==
    IF msg \in {"Such invalid fren info.", "Cannot request own fren-ness, wow."} THEN {}
    ELSE IF msg = "No fren found there, much sad." THEN {"connect", "select_user"}
    ELSE IF msg \in {"Already frens. Much wow.", "Friend req already zoomed."}
    THEN {"connect", "select_user", "select_requests"}
    ELSE {"connect", "select_user", "select_requests", "write", "commit"}

\* the statements respond_to_friend_request runs when storage works and it
\* returns msg
RespondStatements(msg) ==
    IF msg \in {"No such fren ping.", "Request already handled wow."}
    THEN {"connect", "select_request"}
    ELSE {"connect", "select_request", "write", "commit"}

\* C19: when a statement that create_friend_request or
\* respond_to_friend_request runs raises, the operation returns False with its
\* failure message and the friend_requests rows are those of before the call;
\* when the statement that would raise is not run, or none raises, the
\* operation does what it does on a working storage.
C19_StorageFailureReported ==
    /\ \A a \in FaultRequesterArgs, b \in FaultIdArgs, fault \in Statements \cup {"none"} :
          \A r \in {create_friend_request_faulty(users, requests, a, b, now, fault)} :
              IF fault \in CreateStatements(CreateResult(a, b).msg)
              THEN /\ ~r.ok
                   /\ r.msg = "Friend req broken rn. Much sorry."
                   /\ r.requests = requests
              ELSE /\ r.ok = CreateResult(a, b).ok
                   /\ r.msg = CreateResult(a, b).msg
                   /\ r.requests = CreateResult(a, b).requests
    /\ \A k \in RequestIdArgs, b \in FaultIdArgs, accept \in BOOLEAN,
          fault \in Statements \cup {"none"} :
          \A r \in {respond_to_friend_request_faulty(requests, k, b, accept, now, fault)} :
              IF fault \in RespondStatements(RespondResult(k, b, accept).msg)
              THEN /\ ~r.ok
                   /\ r.msg = "Cannot update fren req atm."
                   /\ r.requests = requests
              ELSE /\ r.ok = RespondResult(k, b, accept).ok
                   /\ r.msg = RespondResult(k, b, accept).msg
                   /\ r.requests = RespondResult(k, b, accept).requests

\* C19 witness: the commit of a call raised after the row was written; the
\* call reported failure and the table is the one of before the call.
C19_Witness ==
    /\ last.op \in {"create_friend_request", "respond_to_friend_request"}
    /\ last.fault = "commit"
    /\ ~last.ok
    /\ last.msg \in {"Friend req broken rn. Much sorry.", "Cannot update fren req atm."}
    /\ last.written # requests
    /\ requests = before.requests
    /\ Len(requests) >= 1

\* the two characters are the same letter, in either case
SameLetter(c, d) ==
    \/ c = d
    \/ {c, d} = {"a", "A"}
    \/ {c, d} = {"b", "B"}

\* the stored text x equals the text y, ignoring case; a column that is NULL
\* equals no text
SameIgnoringCase(x, y) ==
    /\ x # NoneStr
    /\ Len(x) = Len(y)
    /\ \A i \in 1..Len(x) : SameLetter(x[i], y[i])

\* the ids of the users one of whose names is the trimmed text, ignoring case
Named(text) ==
    {users[i].id : i \in {j \in 1..Len(users) :
        \/ SameIgnoringCase(users[j].username, Strip(text))
        \/ SameIgnoringCase(users[j].email, Strip(text))
        \/ SameIgnoringCase(users[j].display_name, Strip(text))}}

\* C20: find_user_by_identifier returns not-found for a text that is empty or
\* only whitespace; for any other text it returns the stored user of lowest id
\* among those whose username, email or display name equals the trimmed text
\* ignoring case, and not-found when there is none.
C20_FindLowestIdIgnoringCase ==
    \A text \in FindTexts : \A row \in {find_user_by_identifier(users, text)} :
        IF Strip(text) = <<>> \/ Named(text) = {}
        THEN row = NoUserRow
        ELSE /\ row.id \in Named(text)
             /\ \A id \in Named(text) : row.id <= id
             /\ \E i \in 1..Len(users) : users[i] = row

\* C20 witness: a text with spaces around it was looked up while two users
\* carry it as a name, the first of them in another letter case; the first
\* was returned.
C20_Witness ==
    /\ last.op = "find_user_by_identifier"
    /\ last.ok
    /\ last.identifier # Strip(last.identifier)
    /\ Cardinality(Named(last.identifier)) >= 2
    /\ \A id \in Named(last.identifier) : last.user_id <= id
    /\ \E i \in 1..Len(users) :
          /\ users[i].id = last.user_id
          /\ users[i].username # Strip(last.identifier)
          /\ users[i].email # Strip(last.identifier)

----------------------------------------------------------------------------
(* Properties of the request lists *)

\* the rows of a list, as a set
RowsOf(rows) == {rows[i] : i \in 1..Len(rows)}

\* the stored pending rows received by user_id, and those sent by user_id
PendingTo(user_id) ==
    {requests[i] : i \in {j \in 1..Len(requests) :
        requests[j].receiver_id = user_id /\ requests[j].status = "pending"}}

PendingFrom(user_id) ==
    {requests[i] : i \in {j \in 1..Len(requests) :
        requests[j].requester_id = user_id /\ requests[j].status = "pending"}}

\* row q was created after row r
CreatedAfter(q, r) ==
    \/ q.created_at > r.created_at
    \/ q.created_at = r.created_at /\ q.id > r.id

----------------------------------------------------------------------------
(* Properties of what the page tells the user *)

\* the widget of the gif event is on the page session s is shown: the
\* add-giphy form, or the delete button of a card of the viewer's own wall
Offered(s, event) ==
    /\ PageResult(s, NoEvent).shown.posting
    /\ event.kind = "delete" =>
          \E i \in 1..Len(PageResult(s, NoEvent).shown.gifs) :
              PageResult(s, NoEvent).shown.gifs[i].uuid = event.text

\* the same run as PageResult(s, event), with a gif table that cannot be written
PageFaultResult(s, event) ==
    page_run_gif_fault(users, requests, giphies, sessions[s], event, now, uuids)

\* C22 as claimed: a gif post or a gif delete that leaves the stored gifs as
\* they were, because the link is refused or because the storage call fails,
\* shows the user a failure reason and is not reported as a success.
C22_FailureIsReported ==
    \A s \in Sessions :
        SignedIn(s) =>
            \A event \in {e \in GifEvents : Offered(s, e)} :
                \A r \in {PageResult(s, event), PageFaultResult(s, event)} :
                    r.giphies = giphies => (~r.ok /\ r.msg # "")

----------------------------------------------------------------------------
(* Properties of the rows between two users *)

\* the positions of the rows between a and b that are not declined
OpenBetween(a, b) == {k \in Between(requests, a, b) : requests[k].status # "declined"}

\* position k holds the row of highest id between a and b
Latest(k, a, b) ==
    /\ k \in Between(requests, a, b)
    /\ \A j \in Between(requests, a, b) : requests[j].id <= requests[k].id

\* C23: with every call run as one step, for every two different stored
\* users: at most one row between them is not declined, such a row is the
\* one of highest id between them, and each is in the other's list_friends
\* exactly when the row of highest id between them is accepted.
C23_LatestRowGoverns ==
    \A a \in UserIds : \A b \in UserIds \ {a} :
        /\ Cardinality(OpenBetween(a, b)) <= 1
        /\ \A k \in OpenBetween(a, b) : Latest(k, a, b)
        /\ b \in FriendsOf(users, requests, a)
              <=> \E k \in Between(requests, a, b) :
                      Latest(k, a, b) /\ requests[k].status = "accepted"

\* C23 witness: two users have a declined row and, after it, an accepted
\* one, and are friends.
C23_Witness ==
    \E a \in UserIds : \E b \in UserIds \ {a} :
        /\ Cardinality(Between(requests, a, b)) = 2
        /\ \E k \in Between(requests, a, b) : requests[k].status = "declined"
        /\ \E k \in Between(requests, a, b) :
              Latest(k, a, b) /\ requests[k].status = "accepted"
        /\ b \in FriendsOf(users, requests, a)
        /\ a \in FriendsOf(users, requests, b)

----------------------------------------------------------------------------
(* Properties of calls that interleave *)

\* C24 as claimed: a row that was accepted or declined before the last step
\* of any call, whichever sessions' calls interleave, has the same status
\* after it.
C24_AnsweredIsFinal ==
    \A k \in 1..Len(before.requests) :
        before.requests[k].status \in {"accepted", "declined"}
            => requests[k].status = before.requests[k].status

\* two rows of reqs, both pending, that cross between a and b
CrossedPending(reqs, a, b) ==
    \E j \in 1..Len(reqs) : \E k \in 1..Len(reqs) :
        /\ reqs[j].requester_id = a /\ reqs[j].receiver_id = b /\ reqs[j].status = "pending"
        /\ reqs[k].requester_id = b /\ reqs[k].receiver_id = a /\ reqs[k].status = "pending"

\* session s returns from a create call that had decided to insert
InsertReturns(s) ==
    /\ sessions[s].pc = "insert"
    /\ sessions'[s].pc = "idle"

\* C25: a create call that found nothing in its way when it read inserts its
\* pending row and reports success whatever was written since, so two calls
\* for (a, b) and (b, a) that both read before either writes both insert and
\* both report success
C25_BothInsert ==
    [][\A s \in Viewers :
           InsertReturns(s) =>
               /\ Len(requests') = Len(requests) + 1
               /\ SubSeq(requests', 1, Len(requests)) = requests
               /\ requests'[Len(requests')].status = "pending"
               /\ requests'[Len(requests')].requester_id = sessions[s].requester_id
               /\ requests'[Len(requests')].receiver_id = sessions[s].receiver_id
               /\ last'.ok
               /\ last'.msg = "Friend req launched. Very wow."]_vars

\* C25 happens: the second of two crossing calls has just returned with
\* success; both rows are pending and no row between the two is accepted
C25_Witness ==
    /\ last.ok
    /\ last.msg = "Friend req launched. Very wow."
    /\ \E a \in UserIds : \E b \in UserIds \ {a} :
           /\ CrossedPending(requests, a, b)
           /\ ~CrossedPending(before.requests, a, b)
           /\ \A k \in Between(requests, a, b) : requests[k].status = "pending"

\* C26 as claimed: no row is pending between two users who have an accepted
\* row, and no create call reports success between two users who were
\* friends when it returned
C26_NoPendingBetweenFriends ==
    /\ \A a \in UserIds : \A b \in UserIds \ {a} :
           AcceptedBetween(requests, a, b) =>
               \A k \in Between(requests, a, b) : requests[k].status # "pending"
    /\ \A s \in Viewers :
           (/\ last.op = "create_friend_request" /\ last.ok
            /\ before.sessions[s].pc \in {"accept", "insert"}
            /\ sessions[s].pc = "idle")
               => ~AcceptedBetween(before.requests, before.sessions[s].requester_id,
                                   before.sessions[s].receiver_id)

\* C27 as claimed: whoever was in list_friends(a) before the last call is in
\* list_friends(a) after it, for every stored user a
C27_FriendsStay ==
    \A a \in UserIds : \A b \in UserIds :
        b \in FriendsOf(users, before.requests, a) => b \in FriendsOf(users, requests, a)

----------------------------------------------------------------------------
(* Properties of the response time *)

\* the rows whose response time the last call wrote
Stamped ==
    {k \in 1..Len(requests) :
        k > Len(before.requests)
            \/ requests[k].responded_at # before.requests[k].responded_at}

\* C28: a row has no response time exactly when it is pending; and a call
\* that writes a response time is a successful respond_to_friend_request or
\* an auto-accepting create_friend_request and leaves the row accepted or
\* declined (an inserted row has none)
C28_RespondedWhenAnswered ==
    /\ \A k \in 1..Len(requests) :
           (requests[k].responded_at = NoId) <=> (requests[k].status = "pending")
    /\ \A k \in Stamped :
           IF k > Len(before.requests)
           THEN requests[k].responded_at = NoId
           ELSE /\ last.ok
                /\ \/ last.op = "respond_to_friend_request"
                   \/ /\ last.op = "create_friend_request"
                      /\ last.msg = "Auto accept! Fren energy mutual."
                /\ requests[k].status \in {"accepted", "declined"}

\* C28 happens: an auto-accept has just stamped one row while another row is
\* still pending and unstamped
C28_Witness ==
    /\ last.msg = "Auto accept! Fren energy mutual."
    /\ \E k \in Stamped : requests[k].status = "accepted" /\ requests[k].responded_at # NoId
    /\ \E k \in 1..Len(requests) :
           requests[k].status = "pending" /\ requests[k].responded_at = NoId

----------------------------------------------------------------------------
(* Properties of signing in from several sessions *)

\* C29: no two rows of users hold the same login identifier, whichever way
\* the lookups and the create_user calls of the sessions interleave
C29_IdentifierUnique ==
    \A i \in 1..Len(users) : \A j \in 1..Len(users) :
        i # j => users[i].login_identifier # users[j].login_identifier

\* C29 happens: session s looked its new username or email up before anyone
\* had stored it, another session stored it meanwhile, and the create_user of
\* s has now returned: no row was added and s is signed in as the stored row
C29_Witness ==
    \E s \in Viewers : \E i \in 1..Len(before.users) :
        /\ before.sessions[s].pc = "create"
        /\ sessions[s].pc = "idle"
        /\ before.sessions[s].identifier = before.users[i].login_identifier
        /\ before.sessions[s].uname = before.users[i].username
        /\ before.sessions[s].mail = before.users[i].email
        /\ users = before.users
        /\ sessions[s].user.id = users[i].id
        /\ \E t \in Viewers \ {s} : sessions[t].user.id = users[i].id

\* C30 as claimed: the user id of every signed-in session is the id of a
\* stored user, so a login whose create_user stored nothing and returned 0
\* leaves its session signed out
C30_SessionUserStored ==
    \A s \in Viewers :
        sessions[s].user # NoSessUser
            => \E i \in 1..Len(users) : users[i].id = sessions[s].user.id

----------------------------------------------------------------------------
(* Properties of the users a row names *)

\* C31 as claimed: the requester and the receiver of every row are ids of
\* stored users, so a create_friend_request whose requester is no stored
\* user leaves the table without a row of that requester
C31_RowsNameStoredUsers ==
    \A k \in 1..Len(requests) :
        /\ requests[k].requester_id \in UserIds
        /\ requests[k].receiver_id \in UserIds

----------------------------------------------------------------------------
(* Properties of the friend zone a run draws *)

\* C32 as claimed: after a run in which the "Add fren" form, an accept or a
\* decline button changed the table, the pending list, the sent list and the
\* selector options on the viewer's screen are those of the table as stored
C32_ZoneShowsStored ==
    (/\ last.op \in {"friend_request", "accept", "decline"}
     /\ last.ok)
        => last.zone = friend_zone(users, requests, sessions[last.session])
====
